---- MODULE Spec2Model ----
(***************************************************************************)
(* Conversation Memory of the NPC chat backend (core/memory/powermem.py,    *)
(* core/memory/memory_store.py), the chat workflow of the agent             *)
(* (core/agent/langgraph_agent.py) with the personas it is given            *)
(* (core/npc/npc_manager.py) and the Context Assembler, as a state machine. *)
(*                                                                          *)
(* The two SeekDB collections "dialogs" and "character_state" are sets of   *)
(* records keyed by their id.  Request threads (the web server serves       *)
(* requests concurrently) run the PowerMem methods; a method is split into  *)
(* steps only where it touches shared state more than once (reading the     *)
(* clock and then adding; querying the ids and then deleting).              *)
(*                                                                          *)
(* Text is a sequence of one-character strings.  The module is ASCII only,  *)
(* so the CJK characters of the source are written as tokens:               *)
(*   "yong" "hu"  = U+7528 U+6237 (the user label of a document)           *)
(*   "jue"  "se"  = U+89D2 U+8272 (the default npc_name)                   *)
(*   "fwcolon"    = U+FF1A, the full-width colon                            *)
(*   "pingjing" / "buyue" / "diluo" = the moods calm / displeased / downcast*)
(***************************************************************************)
EXTENDS Integers, Sequences, FiniteSets, TLC

VARIABLES
    dialogs,          \* db collection "dialogs"
    character_state,  \* db collection "character_state"
    now,              \* int(time.time())
    th,               \* the request threads: position, arguments, result
    calls,            \* number of calls started so far
    memory,           \* MemoryStore._memory: what commit() has added
    recalled,         \* outcome of the last MemoryStore call
    wf,               \* the chat workflow of each request thread
    assembled,        \* the Context Assembler: its inputs and its output
    npc_dir,          \* the files of npc_dir and knowledge_base_dir
    served,           \* the last request served and its answer
    logs              \* ConversationLog._logs

vars ==
    <<dialogs, character_state, now, th, calls, memory, recalled, wf, assembled,
      npc_dir, served, logs>>

----------------------------------------------------------------------------
(* Bounds *)

MaxTime == 3        \* the clock runs from StartTime to MaxTime
MaxCalls == 3       \* calls started in one behaviour
MaxLimit == 2       \* history limits 0..MaxLimit

StartTime == 2      \* records of earlier runs carry timestamps below it

Threads == {"t1", "t2"}
NPCs == {"A", "B"}
Limits == 0..MaxLimit

----------------------------------------------------------------------------
(* Text *)

NL == "\n"
SP == " "
FWCOLON == "fwcolon"
UserLabel == <<"yong", "hu", FWCOLON>>
DefaultNpcName == <<"jue", "se">>
Whitespace == {SP, NL}

\* str.strip(): drop leading and trailing whitespace
RECURSIVE LStrip(_)
LStrip(s) ==
    IF s # <<>> /\ Head(s) \in Whitespace THEN LStrip(Tail(s)) ELSE s

RECURSIVE RStrip(_)
RStrip(s) ==
    IF s # <<>> /\ s[Len(s)] \in Whitespace
    THEN RStrip(SubSeq(s, 1, Len(s) - 1))
    ELSE s

Strip(s) == RStrip(LStrip(s))

\* str.split(sep) for a one-character separator: the pieces between separators
RECURSIVE SplitFrom(_, _, _)
SplitFrom(s, sep, cur) ==
    IF s = <<>> THEN <<cur>>
    ELSE IF Head(s) = sep THEN <<cur>> \o SplitFrom(Tail(s), sep, <<>>)
    ELSE SplitFrom(Tail(s), sep, Append(cur, Head(s)))

Split(s, sep) == SplitFrom(s, sep, <<>>)

StartsWith(s, p) == Len(s) >= Len(p) /\ SubSeq(s, 1, Len(p)) = p

Contains(s, c) == \E i \in 1..Len(s) : s[i] = c

\* line.split(FWCOLON, 1)[1]: what follows the first full-width colon
RECURSIVE AfterFirst(_, _)
AfterFirst(s, c) ==
    IF s = <<>> THEN <<>>
    ELSE IF Head(s) = c THEN Tail(s)
    ELSE AfterFirst(Tail(s), c)

\* [x.strip() for x in doc.split("\n") if x.strip()]
RECURSIVE StripNonEmpty(_)
StripNonEmpty(parts) ==
    IF parts = <<>> THEN <<>>
    ELSE IF Strip(Head(parts)) = <<>> THEN StripNonEmpty(Tail(parts))
    ELSE <<Strip(Head(parts))>> \o StripNonEmpty(Tail(parts))

DocLines(doc) == StripNonEmpty(Split(doc, NL))

\* f"<user label>{user_message}\n{npc_name}<colon>{assistant_message}"
DocumentText(user_message, npc_name, assistant_message) ==
    UserLabel \o user_message \o <<NL>> \o npc_name \o <<FWCOLON>> \o assistant_message

\* the loop over the lines of a document: the last user-labelled line gives
\* user_msg, the first other line with a colon and a non-empty rest gives
\* assistant_msg
RECURSIVE ParseLines(_, _, _)
ParseLines(lines, user_msg, assistant_msg) ==
    IF lines = <<>> THEN [user_message |-> user_msg, assistant_message |-> assistant_msg]
    ELSE LET line == Head(lines) IN
         IF StartsWith(line, UserLabel)
         THEN ParseLines(Tail(lines),
                         Strip(SubSeq(line, Len(UserLabel) + 1, Len(line))),
                         assistant_msg)
         ELSE IF Contains(line, FWCOLON) /\ assistant_msg = <<>>
         THEN ParseLines(Tail(lines), user_msg, Strip(AfterFirst(line, FWCOLON)))
         ELSE ParseLines(Tail(lines), user_msg, assistant_msg)

ParseDocument(doc) == ParseLines(DocLines(doc), <<>>, <<>>)

----------------------------------------------------------------------------
(* The SeekDB client, as the calls of powermem.py use it: a collection keeps  *)
(* one record per id; query(filter, n_results) returns n_results of the       *)
(* records that match the filter (all of them when there are fewer), which    *)
(* ones and in what order being the backend's choice since the query text is  *)
(* empty; any call may throw.                                                  *)

Min(a, b) == IF a <= b THEN a ELSE b

\* (mutant) the filter of the query is dropped
MatchingAnyNpc(col, npc_id) == col

Matching(col, npc_id) == {r \in col : r.metadata.npc_id = npc_id}

\* the subsets of S with k elements
RECURSIVE KSubsets(_, _)
KSubsets(S, k) ==
    IF k <= 0 THEN {{}}
    ELSE IF k >= Cardinality(S) THEN {S}
    ELSE IF k = 1 THEN {{x} : x \in S}
    ELSE IF k = Cardinality(S) - 1 THEN {S \ {x} : x \in S}
    ELSE LET x == CHOOSE y \in S : TRUE
         IN  KSubsets(S \ {x}, k) \cup {T \cup {x} : T \in KSubsets(S \ {x}, k - 1)}

\* the orders in which the records of S can be returned
RECURSIVE Orderings(_)
Orderings(S) ==
    IF S = {} THEN {<<>>}
    ELSE UNION {{<<x>> \o o : o \in Orderings(S \ {x})} : x \in S}

\* collection.query(query_texts=[""], filter={"npc_id": npc_id}, n_results=n)
QueryHits(col, npc_id, n_results) ==
    KSubsets(Matching(col, npc_id), Min(n_results, Cardinality(Matching(col, npc_id))))

HasId(col, id) == \E r \in col : r.id = id

\* what collection.add can do with one record: it stores the record, or it
\* throws; it throws when the id is already present (add inserts, it does not
\* update: ids identify records)
AddOutcomes(col, id) ==
    IF HasId(col, id) THEN {"raise"} ELSE {"raise", "stored"}

\* (mutant) the record takes the place of the character's earlier records
AddResultOverwrite(col, rec, outcome) ==
    IF outcome = "stored"
    THEN {r \in col : r.metadata.npc_id # rec.metadata.npc_id} \cup {rec}
    ELSE col

AddResult(col, rec, outcome) ==
    IF outcome = "stored" THEN col \cup {rec} ELSE col

\* collection.delete(ids=flat)
DeleteResult(col, ids) == {r \in col : r.id \notin ids}

\* f"{npc_id}:{timestamp}": the text is determined by, and determines, the pair
RecordId(npc_id, timestamp) == <<npc_id, timestamp>>

----------------------------------------------------------------------------
(* PowerMem: dialog turns *)

\* how a call ends: it returns a value; or an except branch of PowerMem catches
\* what was thrown, prints the failure and returns the fallback value; or the
\* exception leaves the method
Returned(v) == [raised |-> FALSE, value |-> v, logged |-> FALSE]
Caught(v) == [raised |-> FALSE, value |-> v, logged |-> TRUE]
Raised == [raised |-> TRUE, value |-> "exception", logged |-> FALSE]

UserMessages == {<<"h", "i">>, <<"a", NL, "b", FWCOLON, "c">>}
AssistantMessages == {<<"o", "k">>}

\* the record write_dialog adds: text in the document, short fields in metadata
DialogRecord(npc_id, user_message, assistant_message, timestamp) ==
    [id       |-> RecordId(npc_id, timestamp),
     document |-> DocumentText(user_message, DefaultNpcName, assistant_message),
     metadata |-> [dialog_id |-> RecordId(npc_id, timestamp),
                   npc_id    |-> npc_id,
                   timestamp |-> timestamp]]

\* one pass of the loop of get_conversation_history over a returned record
HistoryEntry(rec) ==
    [user_message      |-> ParseDocument(rec.document).user_message,
     assistant_message |-> ParseDocument(rec.document).assistant_message,
     timestamp         |-> rec.metadata.timestamp]

BuildHistory(hits) == [i \in 1..Len(hits) |-> HistoryEntry(hits[i])]

\* list.sort(key=timestamp) is stable: an entry goes behind the entries whose
\* timestamp is not larger
RECURSIVE InsertByTimestamp(_, _)
InsertByTimestamp(e, sorted) ==
    IF sorted = <<>> THEN <<e>>
    ELSE IF Head(sorted).timestamp <= e.timestamp
    THEN <<Head(sorted)>> \o InsertByTimestamp(e, Tail(sorted))
    ELSE <<e>> \o sorted

RECURSIVE SortedPrefix(_, _)
SortedPrefix(h, n) ==
    IF n = 0 THEN <<>> ELSE InsertByTimestamp(h[n], SortedPrefix(h, n - 1))

\* (mutant) the history is returned in the order of the backend
KeepBackendOrder(h) == h

SortByTimestamp(h) == SortedPrefix(h, Len(h))

\* what get_conversation_history returns when the query does not throw
HistoryResults(col, npc_id, limit) ==
    {SortByTimestamp(BuildHistory(hits)) :
        hits \in UNION {Orderings(S) : S \in QueryHits(col, npc_id, limit)}}

\* ... and the empty list of the except branch when it does
HistoryOutcomes(col, npc_id, limit) ==
    {Caught(<<>>)} \cup {Returned(h) : h \in HistoryResults(col, npc_id, limit)}

\* n_results of the query of clear_conversation_history
ClearQueryLimit == 2000

\* the flattening of the returned ids keeps every id that is a string
FlatIds(hits) == {r.id : r \in hits}

----------------------------------------------------------------------------
(* PowerMem: character state *)

DefaultState == [current_mood |-> "pingjing", notes |-> <<>>, last_updated |-> 0]

\* the states callers write
StateInputs ==
    {[current_mood |-> "buyue", notes |-> <<>>, last_updated |-> 0],
     [current_mood |-> "diluo"]}

\* json.dumps of a dict gives the text of a JSON object; a stored document
\* that was not written by set_character_state can also be blank, no JSON at
\* all, or JSON that is no object
JsonDumps(state) == [kind |-> "object", value |-> state]
UnreadableKinds == {"blank", "invalid", "nondict"}

\* a snapshot that an earlier run left and that cannot be read
UnreadableRecord(npc_id, kind) ==
    [id       |-> RecordId(npc_id, StartTime - 1),
     document |-> [kind |-> kind, value |-> <<>>],
     metadata |-> [npc_id |-> npc_id, timestamp |-> StartTime - 1]]

StateRecord(npc_id, state, timestamp) ==
    [id       |-> RecordId(npc_id, timestamp),
     document |-> JsonDumps(state),
     metadata |-> [npc_id |-> npc_id, timestamp |-> timestamp]]

SetKey(d, k, v) == [x \in DOMAIN d \cup {k} |-> IF x = k THEN v ELSE d[x]]
SetDefault(d, k, v) == IF k \in DOMAIN d THEN d ELSE SetKey(d, k, v)

\* (mutant) json.loads is not guarded: a document that is no JSON ends in the
\* outer except branch like one that is no dict
ReadStateLoadUncaught(rec) ==
    IF rec.document.kind \in {"nondict", "invalid"} THEN DefaultState
    ELSE LET loaded == IF rec.document.kind = "object"
                       THEN rec.document.value
                       ELSE DefaultState
         IN  SetDefault(
               SetDefault(
                 SetDefault(SetKey(loaded, "last_updated", rec.metadata.timestamp),
                            "current_mood", "pingjing"),
                 "notes", <<>>),
               "last_updated", 0)

\* get_character_state from the returned record on: the document is loaded
\* (a blank or unparsable one leaves the default), last_updated is taken from
\* the metadata, missing fields are filled in; a loaded value that is no dict
\* makes the assignment throw, and the except branch returns the default
ReadState(rec) ==
    IF rec.document.kind = "nondict" THEN DefaultState
    ELSE LET loaded == IF rec.document.kind = "object"
                       THEN rec.document.value
                       ELSE DefaultState
         IN  SetDefault(
               SetDefault(
                 SetDefault(SetKey(loaded, "last_updated", rec.metadata.timestamp),
                            "current_mood", "pingjing"),
                 "notes", <<>>),
               "last_updated", 0)

\* what get_character_state returns when the query does not throw
StateResults(col, npc_id) ==
    IF Matching(col, npc_id) = {} THEN {DefaultState}
    ELSE {ReadState(r) : r \in UNION QueryHits(col, npc_id, 1)}

\* ... and the default of the except branch when it does
StateOutcomes(col, npc_id) ==
    {Caught(DefaultState)} \cup {Returned(s) : s \in StateResults(col, npc_id)}

----------------------------------------------------------------------------
(* Request threads *)

IdleThread ==
    [pc |-> "idle", op |-> "none", npc_id |-> "none",
     user_message |-> <<>>, assistant_message |-> <<>>, state |-> <<>>,
     limit |-> 0, timestamp |-> 0, ids |-> {}, ret |-> Returned("none")]

\* a call starts with fresh locals
Call(op, npc_id) == [IdleThread EXCEPT !.op = op, !.npc_id = npc_id]

\* a thread is free before its first call and after a return; the server
\* hands a request to a free thread, and as the threads are alike it is taken
\* to be the first free one
Free(t) == th[t].pc \in {"idle", "done"}
ThreadRank == [t \in Threads |-> IF t = "t1" THEN 1 ELSE 2]

Ready(t) ==
    /\ Free(t)
    /\ calls < MaxCalls
    /\ \A u \in Threads : ThreadRank[u] < ThreadRank[t] => ~Free(u)

\* the return after an add or a delete: the locals of the call are gone, what
\* was called for which character and its result stay
Finish(t, r) ==
    [th EXCEPT ![t] = [Call(th[t].op, th[t].npc_id) EXCEPT !.pc = "done", !.ret = r]]

\* the end of write_dialog and set_character_state after the add
AddReturn(outcome) == IF outcome = "raise" THEN Caught(FALSE) ELSE Returned(TRUE)

\* write_dialog, up to the add: the timestamp is read and the record is built
WriteDialogBegin(t, npc_id, user_message, assistant_message) ==
    /\ Ready(t)
    /\ th' = [th EXCEPT ![t] = [Call("write_dialog", npc_id) EXCEPT
                                   !.pc = "add",
                                   !.user_message = user_message,
                                   !.assistant_message = assistant_message,
                                   !.timestamp = now]]
    /\ calls' = calls + 1
    /\ UNCHANGED <<dialogs, character_state, now, memory, recalled, wf, assembled,
                   npc_dir, served, logs>>

\* write_dialog, the add and the return: True unless the add threw
WriteDialogAdd(t) ==
    /\ th[t].pc = "add" /\ th[t].op = "write_dialog"
    /\ \E outcome \in AddOutcomes(dialogs, RecordId(th[t].npc_id, th[t].timestamp)) :
          /\ dialogs' = AddResult(dialogs,
                                  DialogRecord(th[t].npc_id, th[t].user_message,
                                               th[t].assistant_message, th[t].timestamp),
                                  outcome)
          /\ th' = Finish(t, AddReturn(outcome))
    /\ UNCHANGED <<character_state, now, calls, memory, recalled, wf, assembled,
                   npc_dir, served, logs>>

\* get_conversation_history: one query, then parsing and sorting
GetConversationHistory(t, npc_id, limit) ==
    /\ Ready(t)
    /\ \E r \in HistoryOutcomes(dialogs, npc_id, limit) :
          th' = [th EXCEPT ![t] = [Call("get_conversation_history", npc_id) EXCEPT
                                      !.pc = "done", !.limit = limit, !.ret = r]]
    /\ calls' = calls + 1
    /\ UNCHANGED <<dialogs, character_state, now, memory, recalled, wf, assembled,
                   npc_dir, served, logs>>

\* clear_conversation_history, the query: False when it throws, True at once
\* when no id comes back, else on to the delete
ClearQuery(t, npc_id) ==
    /\ Ready(t)
    /\ \/ th' = [th EXCEPT ![t] = [Call("clear_conversation_history", npc_id) EXCEPT
                                      !.pc = "done", !.ret = Caught(FALSE)]]
       \/ \E hits \in QueryHits(dialogs, npc_id, ClearQueryLimit) :
             th' = [th EXCEPT ![t] = [Call("clear_conversation_history", npc_id) EXCEPT
                                         !.pc = IF FlatIds(hits) = {} THEN "done" ELSE "delete",
                                         !.ids = IF FlatIds(hits) = {} THEN {} ELSE FlatIds(hits),
                                         !.ret = IF FlatIds(hits) = {}
                                                 THEN Returned(TRUE)
                                                 ELSE Returned("none")]]
    /\ calls' = calls + 1
    /\ UNCHANGED <<dialogs, character_state, now, memory, recalled, wf, assembled,
                   npc_dir, served, logs>>

\* clear_conversation_history, the delete and the return
ClearDelete(t) ==
    /\ th[t].pc = "delete"
    /\ \/ /\ dialogs' = DeleteResult(dialogs, th[t].ids)
          /\ th' = Finish(t, Returned(TRUE))
       \/ /\ dialogs' = dialogs
          /\ th' = Finish(t, Caught(FALSE))
    /\ UNCHANGED <<character_state, now, calls, memory, recalled, wf, assembled,
                   npc_dir, served, logs>>

\* set_character_state, up to the add
SetCharacterStateBegin(t, npc_id, state) ==
    /\ Ready(t)
    /\ th' = [th EXCEPT ![t] = [Call("set_character_state", npc_id) EXCEPT
                                   !.pc = "add", !.state = state, !.timestamp = now]]
    /\ calls' = calls + 1
    /\ UNCHANGED <<dialogs, character_state, now, memory, recalled, wf, assembled,
                   npc_dir, served, logs>>

\* set_character_state, the add and the return
SetCharacterStateAdd(t) ==
    /\ th[t].pc = "add" /\ th[t].op = "set_character_state"
    /\ \E outcome \in AddOutcomes(character_state, RecordId(th[t].npc_id, th[t].timestamp)) :
          /\ character_state' = AddResult(character_state,
                                          StateRecord(th[t].npc_id, th[t].state, th[t].timestamp),
                                          outcome)
          /\ th' = Finish(t, AddReturn(outcome))
    /\ UNCHANGED <<dialogs, now, calls, memory, recalled, wf, assembled,
                   npc_dir, served, logs>>

\* get_character_state: one query for one record
GetCharacterState(t, npc_id) ==
    /\ Ready(t)
    /\ \E r \in StateOutcomes(character_state, npc_id) :
          th' = [th EXCEPT ![t] = [Call("get_character_state", npc_id) EXCEPT
                                      !.pc = "done", !.ret = r]]
    /\ calls' = calls + 1
    /\ UNCHANGED <<dialogs, character_state, now, memory, recalled, wf, assembled,
                   npc_dir, served, logs>>

\* the clock moves on by a second
Tick ==
    /\ now < MaxTime
    /\ now' = now + 1
    /\ UNCHANGED <<dialogs, character_state, th, calls, memory, recalled, wf, assembled,
                   npc_dir, served, logs>>

NoMemoryStore == [op |-> "none", ret |-> Returned("none")]

----------------------------------------------------------------------------
(* MemoryStore: the wrapper of the powermem Memory.  Neither method has an    *)
(* except branch, so what Memory.add and Memory.search throw leaves them.     *)

Sessions == {"s1", "s2"}
Queries == {<<>>, <<"q">>}
MaxK == 2           \* recall asks for 1..MaxK excerpts

\* "\n".join(lines)
RECURSIVE Join(_)
Join(lines) ==
    IF lines = <<>> THEN <<>>
    ELSE IF Len(lines) = 1 THEN Head(lines)
    ELSE Head(lines) \o <<NL>> \o Join(Tail(lines))

\* the lines of recall: "- " and the text of every item that has one
RECURSIVE ExcerptLines(_)
ExcerptLines(items) ==
    IF items = <<>> THEN <<>>
    ELSE IF Head(items).content = <<>> THEN ExcerptLines(Tail(items))
    ELSE <<(<<"-", SP>> \o Head(items).content)>> \o ExcerptLines(Tail(items))

\* Memory.search(query, user_id, limit): at most limit items of the user
SearchHits(mem, session_id, k) ==
    UNION {Orderings(S) :
             S \in KSubsets({m \in mem : m.user_id = session_id},
                            Min(k, Cardinality({m \in mem : m.user_id = session_id})))}

\* commit: the two messages are added under the session, or add throws
Commit(session_id, user_msg, ai_msg) ==
    /\ \/ /\ memory' = memory \cup {[user_id |-> session_id, content |-> user_msg],
                                    [user_id |-> session_id, content |-> ai_msg]}
          /\ recalled' = [op |-> "commit", session_id |-> session_id, query |-> <<>>,
                          k |-> 0, ret |-> Returned("None")]
       \/ /\ memory' = memory
          /\ recalled' = [op |-> "commit", session_id |-> session_id, query |-> <<>>,
                          k |-> 0, ret |-> Raised]
    /\ UNCHANGED <<dialogs, character_state, now, th, calls, wf, assembled,
                   npc_dir, served, logs>>

\* recall: "" for an empty query; else the search, whose exception is not
\* caught, and the joined lines of what it returns
Recall(session_id, query, k) ==
    /\ \E r \in IF query = <<>>
                THEN {Returned(<<>>)}
                ELSE {Raised} \cup
                     {Returned(Join(ExcerptLines(hits))) :
                         hits \in SearchHits(memory, session_id, k)} :
          recalled' = [op |-> "recall", session_id |-> session_id, query |-> query,
                       k |-> k, ret |-> r]
    /\ UNCHANGED <<dialogs, character_state, now, th, calls, memory, wf, assembled,
                   npc_dir, served, logs>>

NextMemoryStore ==
    \/ \E s \in Sessions, u \in UserMessages, a \in AssistantMessages : Commit(s, u, a)
    \/ \E s \in Sessions, q \in Queries, k \in 1..MaxK : Recall(s, q, k)

----------------------------------------------------------------------------
(* Persona Store: NPCManager.get_npc.  The tokens of this part:              *)
(*   "fan" = U+70E6, "tao" "yan" = U+8BA8 U+538C, "bu" "man" = U+4E0D U+6EE1, *)
(*   "sheng" "qi" = U+751F U+6C14, "nao" = U+607C (the displeased keywords);  *)
(*   "nan" "guo" = U+96BE U+8FC7, "shang" "xin" = U+4F24 U+5FC3,              *)
(*   "wei" "qu" = U+59D4 U+5C48, "ai" = U+5509 (the downcast keywords);       *)
(*   "wu" = U+65E0, the marker of an empty section;                           *)
(*   "yu" "sai" stands for the fallback sentence of generate_response.        *)

\* dict.get(k, default)
Get(d, k, default) == IF k \in DOMAIN d THEN d[k] ELSE default

\* the npc.json files of the configuration directory: "A" configures a
\* sensitive topic and a speech style, "B" has neither
NpcConfig ==
    [A |-> [name               |-> <<"a">>,
            description        |-> <<"d">>,
            instruction        |-> <<"i">>,
            speech_style       |-> [tone |-> <<"t">>],
            interaction_policy |-> [sensitive_topics |-> << <<"hun", "shi">> >>]],
     B |-> [name               |-> <<"b">>]]

\* the keys get_npc lifts out of the configuration; the others go to "meta"
LiftedKeys == {"name", "instruction", "avatar", "description"}
DefaultAvatar == <<"default.jpg">>

\* an exception of the named class leaves the call
RaisedError(e) == [raised |-> TRUE, value |-> e, logged |-> FALSE]

\* a file of npc_dir: the text of a JSON object, a text that is no JSON, and
\* a name that os.listdir returned of a file that is gone when it is opened
File(kind, config) == [kind |-> kind, config |-> config]

\* the directories of the NPCManager: whether npc_dir exists, its files by
\* name and extension, and the background.txt texts of knowledge_base_dir
Directory(files, backgrounds) ==
    [exists |-> TRUE, files |-> files, backgrounds |-> backgrounds]
NoDirectory == [exists |-> FALSE, files |-> <<>>, backgrounds |-> <<>>]

\* _load_npc_config: FileNotFoundError without the file, else json.load
LoadNpcConfig(dir, npc_id) ==
    IF \/ ~dir.exists
       \/ <<npc_id, "json">> \notin DOMAIN dir.files
       \/ dir.files[<<npc_id, "json">>].kind = "vanished"
    THEN RaisedError("FileNotFoundError")
    ELSE IF dir.files[<<npc_id, "json">>].kind = "malformed"
    THEN RaisedError("JSONDecodeError")
    ELSE Returned(dir.files[<<npc_id, "json">>].config)

\* _load_background: None without the file and for a blank text
LoadBackground(dir, npc_id) ==
    IF ~dir.exists \/ npc_id \notin DOMAIN dir.backgrounds
    THEN [present |-> FALSE, text |-> <<>>]
    ELSE [present |-> Strip(dir.backgrounds[npc_id]) # <<>>,
          text    |-> Strip(dir.backgrounds[npc_id])]

\* sep.join(parts)
RECURSIVE JoinWith(_, _)
JoinWith(sep, parts) ==
    IF parts = <<>> THEN <<>>
    ELSE IF Len(parts) = 1 THEN Head(parts)
    ELSE Head(parts) \o sep \o JoinWith(sep, Tail(parts))

\* the headers of _build_prompt, one token for each constant text, and the
\* section of the system constraint
Header ==
    [background |-> "[background]", instruction |-> "[instruction]",
     identity |-> "[identity]", speech_style |-> "[speech_style]",
     interaction_policy |-> "[interaction_policy]", constraint |-> "[system_constraint]"]
SystemConstraint == <<Header.constraint, NL, "first_person", "never_mention_model">>

\* the keys of the configuration dicts in the order of the file, and the keys
\* whose value is a list
KeyOrder ==
    [persona            |-> <<"core_traits", "values", "flaws">>,
     speech_style       |-> <<"tone", "phrases">>,
     interaction_policy |-> <<"sensitive_topics", "boundary">>]
PersonaLabel == [core_traits |-> "traits_label", values |-> "values_label",
                 flaws |-> "flaws_label"]
ListKeys == {"phrases", "sensitive_topics"}

\* the lines of the persona: a label and the joined list for each of the
\* three keys that has a non-empty list
PersonaLines(persona) ==
    LET present == SelectSeq(KeyOrder.persona, LAMBDA k : Get(persona, k, <<>>) # <<>>)
    IN  [i \in 1..Len(present) |->
            <<PersonaLabel[present[i]], FWCOLON>> \o JoinWith(<<",", SP>>, persona[present[i]])]

\* a line for each item of speech_style or interaction_policy: a list joined
\* with ", ", any other value as it is
ItemLines(d, keys) ==
    LET present == SelectSeq(keys, LAMBDA k : k \in DOMAIN d)
    IN  [i \in 1..Len(present) |->
            <<present[i], FWCOLON>> \o
            (IF present[i] \in ListKeys THEN JoinWith(<<",", SP>>, d[present[i]])
             ELSE d[present[i]])]

IdentityBlock(npc_config) ==
    LET desc == Get(npc_config, "description", <<>>)
        persona_lines == PersonaLines(Get(npc_config, "persona", <<>>))
    IN  (IF desc # <<>> THEN <<desc>> ELSE <<>>) \o
        (IF persona_lines # <<>> THEN <<Join(persona_lines)>> ELSE <<>>)

\* (mutant) the identity section is added whenever the persona has a key
IdentitySectionOfPersona(npc_config) ==
    IF IdentityBlock(npc_config) # <<>> \/ DOMAIN Get(npc_config, "persona", <<>>) # {}
    THEN << <<Header.identity, NL>> \o Join(IdentityBlock(npc_config)) >>
    ELSE <<>>

\* the identity section: added when the description or a persona line is there
IdentitySection(npc_config) ==
    IF IdentityBlock(npc_config) # <<>>
    THEN << <<Header.identity, NL>> \o Join(IdentityBlock(npc_config)) >>
    ELSE <<>>

\* _build_prompt: the sections that are present, then the system constraint,
\* joined by an empty line
BuildPrompt(npc_config, background) ==
    LET instruction == Get(npc_config, "instruction", <<>>)
        speech == Get(npc_config, "speech_style", <<>>)
        policy == Get(npc_config, "interaction_policy", <<>>)
        sections ==
            (IF background.present /\ background.text # <<>>
             THEN << <<Header.background, NL>> \o background.text >> ELSE <<>>) \o
            (IF instruction # <<>>
             THEN << <<Header.instruction, NL>> \o instruction >> ELSE <<>>) \o
            IdentitySection(npc_config) \o
            (IF DOMAIN speech # {}
             THEN << <<Header.speech_style, NL>> \o
                     Join(ItemLines(speech, KeyOrder.speech_style)) >>
             ELSE <<>>) \o
            (IF DOMAIN policy # {}
             THEN << <<Header.interaction_policy, NL>> \o
                     Join(ItemLines(policy, KeyOrder.interaction_policy)) >>
             ELSE <<>>) \o
            <<SystemConstraint>>
    IN  JoinWith(<<NL, NL>>, sections)

\* get_npc: what _load_npc_config raises leaves it; else id, name, avatar,
\* description and prompt at the top, every other key of the configuration
\* under "meta"
GetNpcIn(dir, npc_id) ==
    LET loaded == LoadNpcConfig(dir, npc_id)
        npc_config == loaded.value
    IN  IF loaded.raised THEN loaded
        ELSE Returned(
                [id          |-> npc_id,
                 name        |-> Get(npc_config, "name", <<npc_id>>),
                 avatar      |-> Get(npc_config, "avatar", DefaultAvatar),
                 description |-> Get(npc_config, "description", <<>>),
                 prompt      |-> BuildPrompt(npc_config, LoadBackground(dir, npc_id)),
                 meta        |-> [k \in DOMAIN npc_config \ LiftedKeys |-> npc_config[k]]])

\* the directory of the chat specifications: the two files of NpcConfig
ChatDirectory ==
    Directory([f \in {<<"A", "json">>, <<"B", "json">>} |-> File("json", NpcConfig[f[1]])],
              <<>>)

GetNpc(npc_id) == GetNpcIn(ChatDirectory, npc_id).value

\* the entry of the listing for one configuration
Summary(npc_id, npc_config) ==
    [id          |-> npc_id,
     name        |-> Get(npc_config, "name", <<npc_id>>),
     avatar      |-> Get(npc_config, "avatar", DefaultAvatar),
     description |-> Get(npc_config, "description", <<>>)]

\* the loop of get_all_npcs over the names os.listdir returned: a name that
\* does not end in .json is passed over, FileNotFoundError is caught and the
\* file skipped, any other exception leaves the loop
RECURSIVE ListFrom(_, _)
ListFrom(dir, filenames) ==
    IF filenames = <<>> THEN Returned(<<>>)
    ELSE LET npc_id == Head(filenames)[1]
             loaded == LoadNpcConfig(dir, npc_id)
             rest == ListFrom(dir, Tail(filenames))
         IN  IF Head(filenames)[2] # "json" THEN rest
             ELSE IF loaded.raised
             THEN (IF loaded.value = "FileNotFoundError" THEN rest ELSE loaded)
             ELSE IF rest.raised THEN rest
             ELSE Returned(<<Summary(npc_id, loaded.value)>> \o rest.value)

\* os.listdir returns the names in an arbitrary order
Listings(dir) ==
    {order \in [1..Cardinality(DOMAIN dir.files) -> DOMAIN dir.files] :
        \A f \in DOMAIN dir.files : \E i \in DOMAIN order : order[i] = f}

\* get_all_npcs: [] without the directory
GetAllNpcs(dir, filenames) ==
    IF ~dir.exists THEN Returned(<<>>) ELSE ListFrom(dir, filenames)

----------------------------------------------------------------------------
(* LangGraphAgent: the nodes of the workflow *)

\* k in text, for strings
IsSubstring(k, text) ==
    \E i \in 1..(Len(text) - Len(k) + 1) : SubSeq(text, i, i + Len(k) - 1) = k

DispleasedKeywords == {<<"fan">>, <<"tao", "yan">>, <<"bu", "man">>, <<"sheng", "qi">>, <<"nao">>}
DowncastKeywords == {<<"nan", "guo">>, <<"shang", "xin">>, <<"wei", "qu">>, <<"ai">>}

\* the label of the keyword scan alone; arousal is kept in tenths
ScanEmotion(text) ==
    IF \E k \in DispleasedKeywords : IsSubstring(k, text)
    THEN [label |-> "buyue", arousal |-> 7]
    ELSE IF \E k \in DowncastKeywords : IsSubstring(k, text)
    THEN [label |-> "diluo", arousal |-> 6]
    ELSE [label |-> "pingjing", arousal |-> 2]

\* (mutant) the keyword scan without the inertia of the previous mood
InferEmotionNoInertia(user_message, loaded_state) == ScanEmotion(user_message)

\* infer_emotion: the keyword scan, then the previous mood is kept when it is
\* displeased or downcast and the scan found nothing
InferEmotion(user_message, loaded_state) ==
    LET prev == Get(loaded_state, "current_mood", "pingjing")
        scanned == ScanEmotion(user_message)
    IN  IF prev \in {"buyue", "diluo"} /\ scanned.label = "pingjing"
        THEN [scanned EXCEPT !.label = prev]
        ELSE scanned

\* infer_speech_style: the top-level speech_style of npc_info, else {}
InferSpeechStyle(npc_info) == Get(npc_info, "speech_style", <<>>)

\* the lookup of apply_interaction_policy: the top-level interaction_policy of
\* npc_info and its sensitive_topics, [] when either is missing
SensitiveTopics(npc_info) ==
    Get(Get(npc_info, "interaction_policy", <<>>), "sensitive_topics", <<>>)

TopicMode(npc_info, text) ==
    IF \E i \in 1..Len(SensitiveTopics(npc_info)) :
           IsSubstring(SensitiveTopics(npc_info)[i], text)
    THEN "SOFT_DEFLECT"
    ELSE "NORMAL"

\* (mutant) the two tests in the other order: the topic overrides the emotion
ApplyInteractionPolicyTopicLast(npc_info, user_message, emotion) ==
    [mode |-> IF TopicMode(npc_info, user_message) = "SOFT_DEFLECT" THEN "SOFT_DEFLECT"
              ELSE IF Get(emotion, "label", "none") = "buyue" THEN "COOL_DOWN"
              ELSE "NORMAL"]

\* apply_interaction_policy: NORMAL, SOFT_DEFLECT on a sensitive topic, and
\* last COOL_DOWN when the label is displeased
ApplyInteractionPolicy(npc_info, user_message, emotion) ==
    [mode |-> IF Get(emotion, "label", "none") = "buyue" THEN "COOL_DOWN"
              ELSE TopicMode(npc_info, user_message)]

EmptySection == <<"wu">>

\* (mutant) format_inputs passes the history text on as it is
FormatHistoryAsIs(conversation_history) == conversation_history

\* format_inputs, the conversation_history entry: the text, or the marker when
\* the text is empty
FormatHistory(conversation_history) ==
    IF conversation_history = <<>> THEN EmptySection ELSE conversation_history


\* Python values as _fmt sees them: None, a str, an int, a float (in tenths),
\* a list, and a dict as the sequence of its items in insertion order
Py(kind, v) == [kind |-> kind, v |-> v]

RECURSIVE Digits(_)
Digits(n) ==
    IF n < 10 THEN <<ToString(n)>> ELSE Digits(n \div 10) \o <<ToString(n % 10)>>

\* repr(obj), and str(obj), which differs from it for a str only
RECURSIVE Repr(_)
RECURSIVE ReprItems(_)
RECURSIVE ReprEntries(_)
Repr(obj) ==
    CASE obj.kind = "none" -> <<"N", "o", "n", "e">>
      [] obj.kind = "str" -> <<"'">> \o obj.v \o <<"'">>
      [] obj.kind = "int" -> Digits(obj.v)
      [] obj.kind = "float" -> Digits(obj.v \div 10) \o <<".">> \o Digits(obj.v % 10)
      [] obj.kind = "list" -> <<"[">> \o ReprItems(obj.v) \o <<"]">>
      [] obj.kind = "dict" -> <<"{">> \o ReprEntries(obj.v) \o <<"}">>

ReprItems(items) ==
    IF items = <<>> THEN <<>>
    ELSE Repr(Head(items)) \o
         (IF Len(items) > 1 THEN <<",", SP>> \o ReprItems(Tail(items)) ELSE <<>>)

ReprEntries(items) ==
    IF items = <<>> THEN <<>>
    ELSE Repr(Py("str", Head(items)[1])) \o <<":", SP>> \o Repr(Head(items)[2]) \o
         (IF Len(items) > 1 THEN <<",", SP>> \o ReprEntries(Tail(items)) ELSE <<>>)

Str(obj) == IF obj.kind = "str" THEN obj.v ELSE Repr(obj)

\* obj is None or equals {}, [] or ""
IsEmptyValue(obj) ==
    \/ obj.kind = "none"
    \/ obj.kind \in {"dict", "list", "str"} /\ obj.v = <<>>

\* (mutant) _fmt without the test for the empty list
FmtListUntested(obj) ==
    IF IsEmptyValue(obj) /\ obj.kind # "list" THEN EmptySection
    ELSE IF obj.kind = "dict"
    THEN Join([i \in 1..Len(obj.v) |-> obj.v[i][1] \o <<FWCOLON>> \o Str(obj.v[i][2])])
    ELSE Str(obj)

\* _fmt
Fmt(obj) ==
    IF IsEmptyValue(obj) THEN EmptySection
    ELSE IF obj.kind = "dict"
    THEN Join([i \in 1..Len(obj.v) |-> obj.v[i][1] \o <<FWCOLON>> \o Str(obj.v[i][2])])
    ELSE Str(obj)

\* format_inputs: five sections through _fmt; conversation_history, a str or
\* None, with the marker in the place of a missing or empty text
FormatInputs(sections) ==
    [knowledge            |-> Fmt(sections.knowledge),
     character_state      |-> Fmt(sections.character_state),
     emotion              |-> Fmt(sections.emotion),
     speech_style         |-> Fmt(sections.speech_style),
     interaction_mode     |-> Fmt(sections.interaction_mode),
     conversation_history |-> IF sections.conversation_history.kind = "none"
                              THEN EmptySection
                              ELSE FormatHistory(sections.conversation_history.v)]

\* the value of a key of the dicts of the workflow state as a Python value:
\* the moods, labels and modes are strings, notes a list of strings,
\* last_updated an int, arousal a float and tone a string
SectionValue(k, x) ==
    CASE k \in {"current_mood", "label", "mode"} -> Py("str", <<x>>)
      [] k = "notes" -> Py("list", [i \in 1..Len(x) |-> Py("str", x[i])])
      [] k = "last_updated" -> Py("int", x)
      [] k = "arousal" -> Py("float", x)
      [] OTHER -> Py("str", x)

\* the dict d with its items in the order of keys, the order in which the
\* nodes and get_character_state write them
Items(d, keys) ==
    LET present == SelectSeq(keys, LAMBDA k : k \in DOMAIN d)
    IN  Py("dict", [i \in 1..Len(present) |->
                      <<<<present[i]>>, SectionValue(present[i], d[present[i]])>>])

\* what format_inputs reads from the workflow state
WorkflowSections(w) ==
    [knowledge            |-> w.knowledge,
     character_state      |-> Items(w.character_state,
                                    <<"current_mood", "notes", "last_updated">>),
     emotion              |-> Items(w.emotion, <<"label", "arousal">>),
     speech_style         |-> Items(w.speech_style, <<"tone">>),
     interaction_mode     |-> Items(w.interaction_mode, <<"mode">>),
     conversation_history |-> Py("str", w.conversation_history)]

\* what the Generation Collaborator does with a prompt: it answers, or the
\* call throws (an error of the service, a timeout)
LLMOutcomes == {Raised} \cup {Returned(r) : r \in AssistantMessages}
Fallback == <<"yu", "sai">>

\* (mutant) generate_response without the try around chain.invoke
GenerateUncaught(outcome) == outcome

\* generate_response, the try around chain.invoke: the answer, or the fixed
\* fallback sentence when the call throws
Generate(outcome) == IF outcome.raised THEN Returned(Fallback) ELSE outcome

\* (mutant) the new state is built from the mood alone
NewStateMoodOnly(prev_state, emotion) ==
    [current_mood |-> Get(emotion, "label", Get(prev_state, "current_mood", "pingjing"))]

\* generate_response, new_state: the loaded state with current_mood replaced
NewState(prev_state, emotion) ==
    SetKey(prev_state, "current_mood",
           Get(emotion, "label", Get(prev_state, "current_mood", "pingjing")))

\* (mutant) a failed write of the state ends the call with the failure
WorkflowReturnChecked(response, persisted) ==
    IF persisted THEN Returned(response) ELSE Raised

\* the end of generate_response (node and method): set_character_state has
\* returned True or False, which the node ignores, and the response goes back
WorkflowReturn(response, persisted) == Returned(response)

\* the npc_info a caller passes: what get_npc returns for a character, or the
\* configuration of a character itself with its id
DirectInfo(npc_id) == SetKey(NpcConfig[npc_id], "id", npc_id)
NpcInfos == {GetNpc(n) : n \in NPCs} \cup {DirectInfo("A")}
\* messages: without a keyword (the two characters of one in the other order),
\* with a keyword of both sets, of the downcast set, with the topic of "A",
\* with the topic and a displeased keyword, with half a keyword
ChatMessages ==
    {<<"yan", "tao">>, <<"ai", "fan">>, <<"nan", "guo">>,
     <<"hun", "shi">>, <<"hun", "shi", "tao", "yan">>, <<"hun", "sheng">>}

\* the nodes in the order of the edges of _build_workflow; set_character_state
\* is the second half of the node generate_response
Nodes ==
    <<"load_character_state", "infer_emotion", "infer_speech_style",
      "apply_interaction_policy", "format_inputs", "generate_response",
      "set_character_state">>

IdleWorkflow ==
    [pc |-> "idle", npc_info |-> <<>>, user_message |-> <<>>, knowledge |-> Py("none", <<>>),
     conversation_history |-> <<>>, character_state |-> <<>>, emotion |-> <<>>,
     speech_style |-> <<>>, interaction_mode |-> <<>>, formatted_inputs |-> <<>>,
     response |-> <<>>, generated |-> FALSE, timestamp |-> 0, persisted |-> FALSE,
     visited |-> <<>>, ret |-> Returned("none")]

MaxChats == 2       \* chat calls started in one behaviour

WorkflowFree(t) == wf[t].pc \in {"idle", "done"}

WorkflowReady(t) ==
    /\ WorkflowFree(t)
    /\ calls < MaxChats
    /\ \A u \in Threads : ThreadRank[u] < ThreadRank[t] => ~WorkflowFree(u)

\* (mutant) the edge from infer_speech_style leads past apply_interaction_policy
NextNodeSkipsPolicy(node) ==
    CASE node = "load_character_state" -> "infer_emotion"
      [] node = "infer_emotion" -> "infer_speech_style"
      [] node = "infer_speech_style" -> "format_inputs"
      [] node = "apply_interaction_policy" -> "format_inputs"
      [] node = "format_inputs" -> "generate_response"
      [] node = "generate_response" -> "set_character_state"
      [] node = "set_character_state" -> "add"

\* the edges of the graph, and inside the node generate_response the call of
\* set_character_state after the try around chain.invoke, and its add
NextNode(node) ==
    CASE node = "load_character_state" -> "infer_emotion"
      [] node = "infer_emotion" -> "infer_speech_style"
      [] node = "infer_speech_style" -> "apply_interaction_policy"
      [] node = "apply_interaction_policy" -> "format_inputs"
      [] node = "format_inputs" -> "generate_response"
      [] node = "generate_response" -> "set_character_state"
      [] node = "set_character_state" -> "add"

\* a node has run: its update of the workflow state, and the next node
Visit(t, node, w) ==
    wf' = [wf EXCEPT ![t] = [w EXCEPT !.pc = NextNode(node), !.visited = Append(@, node)]]

\* LangGraphAgent.generate_response: the workflow is invoked with the inputs
GenerateResponseCall(t, npc_info, user_message, knowledge, conversation_history) ==
    /\ WorkflowReady(t)
    /\ wf' = [wf EXCEPT ![t] = [IdleWorkflow EXCEPT
                                   !.pc = "load_character_state",
                                   !.npc_info = npc_info,
                                   !.user_message = user_message,
                                   !.knowledge = knowledge,
                                   !.conversation_history = conversation_history]]
    /\ calls' = calls + 1
    /\ UNCHANGED <<dialogs, character_state, now, th, memory, recalled, assembled,
                   npc_dir, served, logs>>

LoadCharacterState(t) ==
    /\ wf[t].pc = "load_character_state"
    /\ \E r \in StateOutcomes(character_state, wf[t].npc_info.id) :
          Visit(t, "load_character_state",
                [wf[t] EXCEPT !.character_state = r.value])
    /\ UNCHANGED <<dialogs, character_state, now, th, calls, memory, recalled, assembled,
                   npc_dir, served, logs>>

InferEmotionNode(t) ==
    /\ wf[t].pc = "infer_emotion"
    /\ Visit(t, "infer_emotion",
             [wf[t] EXCEPT !.emotion = InferEmotion(wf[t].user_message,
                                                    wf[t].character_state)])
    /\ UNCHANGED <<dialogs, character_state, now, th, calls, memory, recalled, assembled,
                   npc_dir, served, logs>>

InferSpeechStyleNode(t) ==
    /\ wf[t].pc = "infer_speech_style"
    /\ Visit(t, "infer_speech_style",
             [wf[t] EXCEPT !.speech_style = InferSpeechStyle(wf[t].npc_info)])
    /\ UNCHANGED <<dialogs, character_state, now, th, calls, memory, recalled, assembled,
                   npc_dir, served, logs>>

ApplyInteractionPolicyNode(t) ==
    /\ wf[t].pc = "apply_interaction_policy"
    /\ Visit(t, "apply_interaction_policy",
             [wf[t] EXCEPT !.interaction_mode =
                 ApplyInteractionPolicy(wf[t].npc_info, wf[t].user_message, wf[t].emotion)])
    /\ UNCHANGED <<dialogs, character_state, now, th, calls, memory, recalled, assembled,
                   npc_dir, served, logs>>

FormatInputsNode(t) ==
    /\ wf[t].pc = "format_inputs"
    /\ \E sections \in {WorkflowSections(wf[t])} :
          Visit(t, "format_inputs",
                [wf[t] EXCEPT !.formatted_inputs = FormatInputs(sections)])
    /\ UNCHANGED <<dialogs, character_state, now, th, calls, memory, recalled, assembled,
                   npc_dir, served, logs>>

\* the node generate_response up to the write of the state: the collaborator is
\* called with the prompt; an exception that is not caught ends the call
GenerateNode(t) ==
    /\ wf[t].pc = "generate_response"
    /\ \E outcome \in LLMOutcomes :
          IF Generate(outcome).raised
          THEN wf' = [wf EXCEPT ![t] = [IdleWorkflow EXCEPT
                                           !.pc = "done",
                                           !.npc_info = wf[t].npc_info,
                                           !.visited = Append(wf[t].visited, "generate_response"),
                                           !.ret = Raised]]
          ELSE Visit(t, "generate_response",
                     [wf[t] EXCEPT !.response = Generate(outcome).value,
                                   !.generated = ~outcome.raised])
    /\ UNCHANGED <<dialogs, character_state, now, th, calls, memory, recalled, assembled,
                   npc_dir, served, logs>>

\* set_character_state, called by the node, up to the add: the new state is
\* built and the timestamp is read
PersistBegin(t) ==
    /\ wf[t].pc = "set_character_state"
    /\ Visit(t, "set_character_state", [wf[t] EXCEPT !.timestamp = now])
    /\ UNCHANGED <<dialogs, character_state, now, th, calls, memory, recalled, assembled,
                   npc_dir, served, logs>>

\* the add of set_character_state and the return of the node and of the method
PersistAdd(t) ==
    /\ wf[t].pc = "add"
    /\ \E outcome \in AddOutcomes(character_state,
                                  RecordId(wf[t].npc_info.id, wf[t].timestamp)) :
          /\ character_state' =
                AddResult(character_state,
                          StateRecord(wf[t].npc_info.id,
                                      NewState(wf[t].character_state, wf[t].emotion),
                                      wf[t].timestamp),
                          outcome)
          /\ wf' = [wf EXCEPT ![t] = [IdleWorkflow EXCEPT
                       !.pc = "done",
                       !.npc_info = wf[t].npc_info,
                       !.visited = wf[t].visited,
                       !.generated = wf[t].generated,
                       !.persisted = AddReturn(outcome).value,
                       !.ret = WorkflowReturn(wf[t].response, AddReturn(outcome).value)]]
    /\ UNCHANGED <<dialogs, now, th, calls, memory, recalled, assembled,
                   npc_dir, served, logs>>

----------------------------------------------------------------------------
(* Context Assembler: the history text that the caller of the agent hands to *)
(* generate_response ("cut and formatted by the app layer"), followed by the *)
(* conversation_history entry of format_inputs.                              *)

MaxHistory == 3     \* entries of a raw history
MaxTurns == 3       \* maxTurns is 0..MaxTurns
MaxChars == 5       \* maxChars is 0..MaxChars

\* raw entries: both messages, the user message alone, neither
RawEntries ==
    {[user_message |-> <<"h">>, assistant_message |-> <<"o">>],
     [user_message |-> <<"i">>, assistant_message |-> <<>>],
     [user_message |-> <<>>, assistant_message |-> <<>>]}

RECURSIVE SeqsUpTo(_, _)
SeqsUpTo(S, n) ==
    IF n = 0 THEN {<<>>}
    ELSE SeqsUpTo(S, n - 1) \cup
         {Append(h, e) : h \in {x \in SeqsUpTo(S, n - 1) : Len(x) = n - 1}, e \in S}

RawHistories == SeqsUpTo(RawEntries, MaxHistory)

\* (mutant) the slice h[-n:], which is all of h when n is 0
TakeLastSlice(h, n) ==
    IF n = 0 THEN h ELSE SubSeq(h, Len(h) - Min(n, Len(h)) + 1, Len(h))

\* step 1: the last n entries
TakeLast(h, n) == SubSeq(h, Len(h) - Min(n, Len(h)) + 1, Len(h))

\* step 2: a labelled line for each message that is present
EntryLines(e) ==
    (IF e.user_message # <<>> THEN <<UserLabel \o e.user_message>> ELSE <<>>) \o
    (IF e.assistant_message # <<>>
     THEN <<DefaultNpcName \o <<FWCOLON>> \o e.assistant_message>>
     ELSE <<>>)

RECURSIVE HistoryLines(_)
HistoryLines(h) ==
    IF h = <<>> THEN <<>> ELSE EntryLines(Head(h)) \o HistoryLines(Tail(h))

\* step 4: the trailing c characters of a text longer than c
TrailingChars(text, c) ==
    IF Len(text) > c THEN SubSeq(text, Len(text) - c + 1, Len(text)) ELSE text

\* steps 1 to 4
TrimHistory(h, n, c) == TrailingChars(Strip(Join(HistoryLines(TakeLast(h, n)))), c)

NotAssembled ==
    [pc |-> "none", rawHistory |-> <<>>, maxTurns |-> 0, maxChars |-> 0,
     conversation_history |-> <<>>]

\* the history is cut and formatted, and format_inputs puts the marker in the
\* place of an empty text
AssembleHistory ==
    /\ assembled.pc = "input"
    /\ assembled' =
          [assembled EXCEPT
              !.pc = "done",
              !.conversation_history =
                  FormatHistory(TrimHistory(assembled.rawHistory, assembled.maxTurns,
                                            assembled.maxChars))]
    /\ UNCHANGED <<dialogs, character_state, now, th, calls, memory, recalled, wf,
                   npc_dir, served, logs>>

----------------------------------------------------------------------------
(* ConversationLog: the turns of each session, kept in memory for display *)

MaxLog == 3         \* turns appended to one session

NoLogs == [s \in {} |-> <<>>]

\* no request has been served yet
NotServed == [route |-> "none", args |-> <<>>, status |-> 0, body |-> <<>>]

\* an answer; a method that is called directly answers without a status
Response(route, args, status, body) ==
    [route |-> route, args |-> args, status |-> status, body |-> body]

\* list[start:] of Python: a negative start counts from the end, and both
\* are clipped to the list
SliceFrom(list, start) ==
    LET from == IF start >= 0 THEN Min(start, Len(list))
                ELSE IF Len(list) + start >= 0 THEN Len(list) + start
                ELSE 0
    IN  SubSeq(list, from + 1, Len(list))

\* recent: self._logs.get(session_id, [])[-limit:]
Recent(all_logs, session_id, limit) ==
    SliceFrom(Get(all_logs, session_id, <<>>), 0 - limit)

\* append: a record with the time of the call at the end of the session's list
LogAppend(session_id, user_msg, ai_msg) ==
    /\ Len(Get(logs, session_id, <<>>)) < MaxLog
    /\ logs' = SetKey(logs, session_id,
                      Get(logs, session_id, <<>>) \o
                      <<[timestamp |-> now, user |-> user_msg, assistant |-> ai_msg]>>)
    /\ UNCHANGED <<dialogs, character_state, now, th, calls, memory, recalled, wf, assembled,
                   npc_dir, served>>

LogRecent(session_id, limit) ==
    /\ served' = Response("recent", [session_id |-> session_id, limit |-> limit], 0,
                          Recent(logs, session_id, limit))
    /\ UNCHANGED <<dialogs, character_state, now, th, calls, memory, recalled, wf, assembled,
                   npc_dir, logs>>

----------------------------------------------------------------------------
(* app.py: the routes.  A handler that returns a body answers 200 unless it   *)
(* gives a status; an exception that leaves a handler is answered by the      *)
(* framework with 500.                                                        *)

BadRequest == 400
NotFound == 404
MemoriesLimit == 200

\* the answer to a handler that ends with outcome
Respond(route, args, outcome) ==
    Response(route, args, IF outcome.raised THEN 500 ELSE 200, outcome.value)

\* SessionManager.get_or_create: the id of the request, else a new one
GetOrCreate(session_id) == IF session_id # "" THEN session_id ELSE "uuid4"

\* langgraph_agent.run: LangGraphAgent has no attribute of this name
AgentRun(session_id, npc_id, user_text) == RaisedError("AttributeError")

\* the JSON bodies of the chat requests; a key that is missing reads as None
ChatData ==
    LET message == <<"h", "i">>
    IN  {[npc_id |-> "A", message |-> message],
         [npc_id |-> "A", message |-> message, session_id |-> "s1"],
         [npc_id |-> "C", message |-> message],
         [npc_id |-> "C", message |-> <<>>],
         [message |-> message],
         [npc_id |-> "A"]}

\* not npc_id or not message
FieldsMissing(data) ==
    Get(data, "npc_id", "") = "" \/ Get(data, "message", <<>>) = <<>>

\* POST /chat
Chat(data) ==
    /\ served' =
          LET session_id == GetOrCreate(Get(data, "session_id", ""))
              ran == AgentRun(session_id, Get(data, "npc_id", ""), Get(data, "message", <<>>))
          IN  IF FieldsMissing(data)
              THEN Response("chat", data, BadRequest, "npc_id and message required")
              ELSE IF ran.raised THEN Respond("chat", data, ran)
              ELSE Response("chat", data, 200,
                            [session_id |-> session_id, npc_id |-> data.npc_id,
                             reply |-> ran.value])
    /\ UNCHANGED <<dialogs, character_state, now, th, calls, memory, recalled, wf, assembled,
                   npc_dir, logs>>

\* POST /api/chat
ApiChat(data) ==
    /\ served' =
          LET ran == AgentRun("default", Get(data, "npc_id", ""), Get(data, "message", <<>>))
          IN  IF FieldsMissing(data)
              THEN Response("api_chat", data, BadRequest, "npc_id and message required")
              ELSE IF ran.raised THEN Respond("api_chat", data, ran)
              ELSE Response("api_chat", data, 200, [response |-> ran.value])
    /\ UNCHANGED <<dialogs, character_state, now, th, calls, memory, recalled, wf, assembled,
                   npc_dir, logs>>

\* GET /api/npc_list
GetNpcList ==
    /\ \E filenames \in Listings(npc_dir) :
          served' = Respond("npc_list", <<>>, GetAllNpcs(npc_dir, filenames))
    /\ UNCHANGED <<dialogs, character_state, now, th, calls, memory, recalled, wf, assembled,
                   npc_dir, logs>>

\* GET /api/npc/<npc_id>: get_npc is called outside any try, and the dict it
\* returns has keys, so that it is truthy
GetNpcInfo(npc_id) ==
    /\ served' =
          LET npc == GetNpcIn(npc_dir, npc_id)
          IN  IF npc.raised THEN Respond("npc_info", npc_id, npc)
              ELSE IF DOMAIN npc.value # {} THEN Response("npc_info", npc_id, 200, npc.value)
              ELSE Response("npc_info", npc_id, NotFound, "NPC not found")
    /\ UNCHANGED <<dialogs, character_state, now, th, calls, memory, recalled, wf, assembled,
                   npc_dir, logs>>

\* GET /api/memories/<npc_id>: the last MemoriesLimit records of the session
\* named by npc_id, in the field names of the front end
GetMemories(npc_id) ==
    /\ served' =
          LET memories == Recent(logs, npc_id, MemoriesLimit)
          IN  Response("get_memories", npc_id, 200,
                       [i \in 1..Len(memories) |->
                           [user_message      |-> memories[i].user,
                            assistant_message |-> memories[i].assistant,
                            timestamp         |-> memories[i].timestamp]])
    /\ UNCHANGED <<dialogs, character_state, now, th, calls, memory, recalled, wf, assembled,
                   npc_dir, logs>>

\* DELETE /api/memories/<npc_id>: the list of the session is deleted
ClearMemories(npc_id) ==
    /\ logs' = [s \in DOMAIN logs \ {npc_id} |-> logs[s]]
    /\ served' = Response("clear_memories", npc_id, 200, "Memories cleared successfully")
    /\ UNCHANGED <<dialogs, character_state, now, th, calls, memory, recalled, wf, assembled,
                   npc_dir>>

\* the server before its first request, over the directory of the chat
ServerStarted ==
    /\ npc_dir = ChatDirectory
    /\ served = NotServed
    /\ logs = NoLogs

----------------------------------------------------------------------------
(* Specifications *)

\* the process starts with the collections as earlier runs left them
InitWith(stored_dialogs, stored_states) ==
    /\ dialogs = stored_dialogs
    /\ character_state = stored_states
    /\ now = StartTime
    /\ th = [t \in Threads |-> IdleThread]
    /\ calls = 0
    /\ memory = {}
    /\ recalled = NoMemoryStore
    /\ ServerStarted
    /\ wf = [t \in Threads |-> IdleWorkflow]
    /\ assembled = NotAssembled

Next ==
    \/ \E t \in Threads, n \in NPCs, u \in UserMessages, a \in AssistantMessages :
          WriteDialogBegin(t, n, u, a)
    \/ \E t \in Threads : WriteDialogAdd(t)
    \/ \E t \in Threads, n \in NPCs, l \in Limits : GetConversationHistory(t, n, l)
    \/ \E t \in Threads, n \in NPCs : ClearQuery(t, n)
    \/ \E t \in Threads : ClearDelete(t)
    \/ \E t \in Threads, n \in NPCs, s \in StateInputs : SetCharacterStateBegin(t, n, s)
    \/ \E t \in Threads : SetCharacterStateAdd(t)
    \/ \E t \in Threads, n \in NPCs : GetCharacterState(t, n)
    \/ Tick

Init == InitWith({}, {})

Spec == Init /\ [][Next]_vars

\* the calls of MemoryStore alone
SpecMemoryStore == Init /\ [][NextMemoryStore]_vars

\* The character_state collection may hold an unreadable snapshot of "A" from
\* an earlier run; the threads read and write character states.
StoredSnapshotSets == {{}} \cup {{UnreadableRecord("A", k)} : k \in UnreadableKinds}

InitStored == \E stored \in StoredSnapshotSets : InitWith({}, stored)

NextStored ==
    \/ \E t \in Threads, n \in NPCs, s \in StateInputs : SetCharacterStateBegin(t, n, s)
    \/ \E t \in Threads : SetCharacterStateAdd(t)
    \/ \E t \in Threads, n \in NPCs : GetCharacterState(t, n)
    \/ Tick

SpecStored == InitStored /\ [][NextStored]_vars

\* A long-running character: the dialogs collection holds one turn more than
\* the query of clear_conversation_history asks for, one turn a second up to
\* the second before the start, and one thread clears.
ArchivedTurns ==
    {DialogRecord("A", <<"h", "i">>, <<"o", "k">>, ts) :
        ts \in (StartTime - ClearQueryLimit - 1)..(StartTime - 1)}

InitArchive == InitWith(ArchivedTurns, {})

NextArchive ==
    \/ \E n \in NPCs : ClearQuery("t1", n)
    \/ ClearDelete("t1")

SpecArchive == InitArchive /\ [][NextArchive]_vars

\* The chat calls: the threads run the workflow.  The character_state
\* collection is empty or holds a snapshot of "A" that an earlier run wrote.
EarlierState == [current_mood |-> "diluo", notes |-> <<"n">>, last_updated |-> 0]

ChatSnapshotSets == {{}, {StateRecord("A", EarlierState, StartTime - 1)}}

InitChat == \E stored \in ChatSnapshotSets : InitWith({}, stored)

\* the next step of the workflow of thread t
WorkflowStep(t) ==
    \/ LoadCharacterState(t)
    \/ InferEmotionNode(t)
    \/ InferSpeechStyleNode(t)
    \/ ApplyInteractionPolicyNode(t)
    \/ FormatInputsNode(t)
    \/ GenerateNode(t)
    \/ PersistBegin(t)
    \/ PersistAdd(t)

\* the concurrent chat calls take the personas of the store, a message without
\* and one with a keyword, no knowledge and an empty history text; each call
\* builds its own npc_info and knowledge values when it is made
NextChat ==
    \/ \E t \in Threads, n \in NPCs, m \in {<<"yan", "tao">>, <<"ai", "fan">>} :
          /\ GenerateResponseCall(t, GetNpc(n), m, Py("none", <<>>), <<>>)
    \/ \E t \in Threads : WorkflowStep(t)
    \/ Tick

SpecChat == InitChat /\ [][NextChat]_vars

\* a thread that is inside the workflow goes on running: every node returns
SpecChatFair == SpecChat /\ \A t \in Threads : WF_vars(WorkflowStep(t))

\* One chat call from the loaded state to the resolved mode, on every message,
\* npc_info and loaded mood
LoadedStates ==
    {[DefaultState EXCEPT !.current_mood = m] : m \in {"pingjing", "buyue", "diluo", "xi"}}

InitPolicy ==
    /\ dialogs = {}
    /\ character_state = {}
    /\ now = StartTime
    /\ th = [t \in Threads |-> IdleThread]
    /\ calls = 1
    /\ memory = {}
    /\ recalled = NoMemoryStore
    /\ ServerStarted
    /\ assembled = NotAssembled
    /\ \E i \in NpcInfos, m \in ChatMessages, s \in LoadedStates :
          wf = [t \in Threads |->
                  IF t = "t1"
                  THEN [IdleWorkflow EXCEPT
                           !.pc = "infer_emotion", !.npc_info = i, !.user_message = m,
                           !.character_state = s,
                           !.visited = <<"load_character_state">>]
                  ELSE IdleWorkflow]

NextPolicy ==
    \/ InferEmotionNode("t1")
    \/ InferSpeechStyleNode("t1")
    \/ ApplyInteractionPolicyNode("t1")

SpecPolicy == InitPolicy /\ [][NextPolicy]_vars

\* The Context Assembler alone, on every raw history and every pair of limits
InitAssemble ==
    /\ dialogs = {}
    /\ character_state = {}
    /\ now = StartTime
    /\ th = [t \in Threads |-> IdleThread]
    /\ calls = 0
    /\ memory = {}
    /\ recalled = NoMemoryStore
    /\ ServerStarted
    /\ wf = [t \in Threads |-> IdleWorkflow]
    /\ \E h \in RawHistories, n \in 0..MaxTurns, c \in 0..MaxChars :
          assembled = [NotAssembled EXCEPT
                          !.pc = "input", !.rawHistory = h, !.maxTurns = n, !.maxChars = c]

SpecAssemble == InitAssemble /\ [][AssembleHistory]_vars

\* format_inputs alone, on values of every kind: the sections take two values
\* among them, the history text is None, empty or a text
SectionValues ==
    <<Py("none", <<>>), Py("str", <<>>), Py("str", <<"x">>), Py("str", <<SP>>),
      Py("int", 0), Py("int", 12), Py("float", 7),
     Py("list", <<>>), Py("list", <<Py("str", <<"a">>), Py("int", 1)>>),
     Py("dict", <<>>),
     Py("dict", << <<(<<"k">>), Py("str", <<"v">>)>> >>),
     Py("dict", << <<(<<"k">>), Py("str", <<"v", NL, "w">>)>>,
               <<(<<"l">>), Py("list", <<Py("str", <<"a">>)>>)>>,
               <<(<<"m">>), Py("none", <<>>)>> >>),
     Py("dict", << <<(<<"k">>), Py("dict", <<>>)>> >>)>>

InitFormat ==
    /\ dialogs = {}
    /\ character_state = {}
    /\ now = StartTime
    /\ th = [t \in Threads |-> IdleThread]
    /\ calls = 0
    /\ memory = {}
    /\ recalled = NoMemoryStore
    /\ ServerStarted
    /\ wf = [t \in Threads |-> IdleWorkflow]
    /\ \E a \in DOMAIN SectionValues, b \in DOMAIN SectionValues,
          h \in {"none", "empty", "text"} :
          assembled =
              [pc |-> "sections",
               sections |-> [knowledge            |-> SectionValues[a],
                             character_state      |-> SectionValues[b],
                             emotion              |-> SectionValues[a],
                             speech_style         |-> SectionValues[b],
                             interaction_mode     |-> SectionValues[a],
                             conversation_history |->
                                 IF h = "none" THEN Py("none", <<>>)
                                 ELSE Py("str", IF h = "empty" THEN <<>> ELSE <<"x">>)],
               formatted_inputs |-> <<>>]

FormatSections ==
    /\ assembled.pc = "sections"
    /\ assembled' = [assembled EXCEPT
                        !.pc = "formatted",
                        !.formatted_inputs = FormatInputs(assembled.sections)]
    /\ UNCHANGED <<dialogs, character_state, now, th, calls, memory, recalled, wf,
                   npc_dir, served, logs>>

SpecFormat == InitFormat /\ [][FormatSections]_vars

\* The routes of the Persona Store over every directory of two persona files
\* and a file of another extension
PersonaDirectory(a, b, c) ==
    LET FileChoices(npc_id) ==
            <<File("malformed", <<>>), File("vanished", <<>>),
              File("json", NpcConfig[npc_id]), File("json", <<>>)>>
        present == (IF a > 0 THEN {<<"A", "json">>} ELSE {}) \cup
                   (IF b > 0 THEN {<<"B", "json">>} ELSE {}) \cup
                   (IF c > 0 THEN {<<"notes", "txt">>} ELSE {})
    IN  Directory([f \in present |->
                      IF f[2] = "txt" THEN File("malformed", <<>>)
                      ELSE FileChoices(f[1])[IF f[1] = "A" THEN a ELSE b]],
                  [n \in {"A"} |-> <<"g">>])

RestOfInit ==
    /\ dialogs = {}
    /\ character_state = {}
    /\ now = StartTime
    /\ th = [t \in Threads |-> IdleThread]
    /\ calls = 0
    /\ memory = {}
    /\ recalled = NoMemoryStore
    /\ wf = [t \in Threads |-> IdleWorkflow]
    /\ assembled = NotAssembled

InitPersona ==
    /\ RestOfInit
    /\ served = NotServed
    /\ logs = NoLogs
    /\ \/ npc_dir = NoDirectory
       \/ \E a \in 0..4, b \in 0..4, c \in 0..1 : npc_dir = PersonaDirectory(a, b, c)

NextPersona ==
    \/ GetNpcList
    \/ \E n \in {"A", "B", "C"} : GetNpcInfo(n)
    \/ \E d \in ChatData : Chat(d)
    \/ \E d \in ChatData : ApiChat(d)

SpecPersona == InitPersona /\ [][NextPersona]_vars

\* get_npc on every configuration: each key missing, empty or filled
ConfigOptions ==
    [instruction  |-> << <<>>, [instruction |-> <<>>], [instruction |-> <<"i">>] >>,
     description  |-> << <<>>, [description |-> <<>>], [description |-> <<"d">>] >>,
     persona      |->
        << <<>>,
           [persona |-> <<>>],
           [persona |-> [core_traits |-> <<>>]],
           [persona |-> [core_traits |-> << <<"p">>, <<"q">> >>]],
           [persona |-> [values |-> << <<"v">> >>, flaws |-> << <<"f">> >>]] >>,
     speech_style |->
        << <<>>,
           [speech_style |-> <<>>],
           [speech_style |-> [tone |-> <<"t">>]],
           [speech_style |-> [tone |-> <<"t">>, phrases |-> << <<"x">>, <<"y">> >>]],
           [speech_style |-> [phrases |-> <<>>]] >>,
     interaction_policy |->
        << <<>>,
           [interaction_policy |-> <<>>],
           [interaction_policy |-> [sensitive_topics |-> << <<"hun", "shi">> >>,
                                    boundary |-> <<"b">>]] >>,
     background   |-> << <<>>, [A |-> <<SP, NL>>], [A |-> <<SP, "g", NL>>] >>]

\* a dict of the keys of both
Merge(d, e) ==
    [k \in DOMAIN d \cup DOMAIN e |-> IF k \in DOMAIN d THEN d[k] ELSE e[k]]

InitPrompt ==
    /\ RestOfInit
    /\ served = NotServed
    /\ logs = NoLogs
    /\ \E i \in DOMAIN ConfigOptions.instruction, d \in DOMAIN ConfigOptions.description,
          p \in DOMAIN ConfigOptions.persona, s \in DOMAIN ConfigOptions.speech_style,
          q \in DOMAIN ConfigOptions.interaction_policy,
          b \in DOMAIN ConfigOptions.background :
          npc_dir =
              Directory([f \in {<<"A", "json">>} |->
                            File("json",
                                 Merge(ConfigOptions.instruction[i],
                                 Merge(ConfigOptions.description[d],
                                 Merge(ConfigOptions.persona[p],
                                 Merge(ConfigOptions.speech_style[s],
                                       ConfigOptions.interaction_policy[q])))))],
                        ConfigOptions.background[b])

SpecPrompt == InitPrompt /\ [][GetNpcInfo("A")]_vars

\* The ConversationLog and the two routes that read and delete it
InitLog ==
    /\ RestOfInit
    /\ ServerStarted

NextLog ==
    \/ \E s \in NPCs, u \in {<<"u">>, <<"v">>} : LogAppend(s, u, <<"o", "k">>)
    \/ \E s \in NPCs, l \in Limits : LogRecent(s, l)
    \/ \E n \in NPCs : GetMemories(n)
    \/ \E n \in NPCs : ClearMemories(n)

SpecLog == InitLog /\ [][NextLog]_vars

----------------------------------------------------------------------------
(* Claims about dialog turns *)

\* the step is one of thread t and completes a call of op
\* thread t takes this step: its record changes, or it is the thread that
\* starts the call the step counts (a call that returns in one step what the
\* thread's previous call returned leaves the record as it was)
Acts(t) == th'[t] # th[t] \/ (Ready(t) /\ calls' # calls)

\* with this step, thread t returns from a call of op
Completes(t, op) ==
    /\ Acts(t)
    /\ th'[t].op = op
    /\ th'[t].pc = "done"

Timestamps(h) == {h[i].timestamp : i \in 1..Len(h)}

\* the timestamps of the n most recent turns stored for a character
MostRecentTimestamps(col, npc_id, n) ==
    {r.metadata.timestamp : r \in
        {r \in Matching(col, npc_id) :
            Cardinality({q \in Matching(col, npc_id) :
                            q.metadata.timestamp > r.metadata.timestamp}) < n}}

\* C1: whatever turns have been appended, history(characterId, limit) returns
\* the `limit` most recent turns of the character (those with the largest
\* timestamps), not some other subset of that size.
C1_HistoryIsMostRecent ==
    [][\A t \in Threads :
          (Completes(t, "get_conversation_history") /\ ~th'[t].ret.logged) =>
              Timestamps(th'[t].ret.value) =
                  MostRecentTimestamps(dialogs, th'[t].npc_id, th'[t].limit)]_vars

Ascending(h) == \A i, j \in 1..Len(h) : i < j => h[i].timestamp <= h[j].timestamp

\* C2: a returned history has at most `limit` items and is ascending by
\* timestamp whatever the order in which the backend returned the records, and
\* history is the empty sequence, not an error, when nothing is stored for the
\* character.
C2_HistoryBoundedAscending ==
    /\ \A t \in Threads :
          (th[t].op = "get_conversation_history" /\ th[t].pc = "done") =>
              /\ ~th[t].ret.raised
              /\ Len(th[t].ret.value) <= th[t].limit
              /\ Ascending(th[t].ret.value)
    /\ \A c \in NPCs, l \in Limits :
          (\A r \in dialogs : r.metadata.npc_id # c) =>
              \A r \in HistoryOutcomes(dialogs, c, l) : r.value = <<>> /\ ~r.raised

\* C2 witness: a history of two turns has been returned (the backend can
\* return them in either order) while the other character has no turn
C2_Witness ==
    \E t \in Threads, c \in NPCs :
        /\ th[t].op = "get_conversation_history" /\ th[t].pc = "done"
        /\ th[t].limit = 2
        /\ Len(th[t].ret.value) = 2
        /\ th[t].ret.value[1].timestamp < th[t].ret.value[2].timestamp
        /\ \A r \in dialogs : r.metadata.npc_id # c

\* C3: a successful appendTurn(c, u, a) followed by history(c, 1) returns
\* exactly one turn, whose user and assistant message are u and a, whatever
\* was stored before.
C3_RoundTrip ==
    [][\A t \in Threads :
          (Completes(t, "write_dialog") /\ th'[t].ret.value = TRUE) =>
              \A h \in HistoryResults(dialogs', th'[t].npc_id, 1) :
                  /\ Len(h) = 1
                  /\ h[1].user_message = th[t].user_message
                  /\ h[1].assistant_message = th[t].assistant_message]_vars

\* the call of thread t runs alone: no other thread has called anything
RunsAlone(t) == \A u \in Threads \ {t} : th[u].pc = "idle"

\* C4: clear(c) followed by history(c, anyLimit) returns the empty sequence,
\* however many turns were stored, and a clear of a scope that is already
\* empty succeeds and leaves it empty.
C4_ClearThenEmpty ==
    [][\A t \in Threads :
          (/\ Completes(t, "clear_conversation_history")
           /\ ~th'[t].ret.logged
           /\ RunsAlone(t)) =>
              /\ th'[t].ret.value = TRUE
              /\ \A l \in Limits :
                    \A h \in HistoryResults(dialogs', th'[t].npc_id, l) : h = <<>>]_vars

----------------------------------------------------------------------------
(* Claims about character states *)

\* the snapshot of a character with the largest timestamp
LatestSnapshot(col, npc_id) ==
    CHOOSE r \in Matching(col, npc_id) :
        \A q \in Matching(col, npc_id) : q.metadata.timestamp <= r.metadata.timestamp

\* C5: after successful setState calls for a character, getState returns the
\* content of the most recent snapshot of that character, never an older one.
C5_ReadsMostRecentSnapshot ==
    [][\A t \in Threads :
          (/\ Completes(t, "get_character_state")
           /\ ~th'[t].ret.logged
           /\ Matching(character_state, th'[t].npc_id) # {}) =>
              LET latest == LatestSnapshot(character_state, th'[t].npc_id)
              IN  /\ th'[t].ret.value.current_mood = latest.document.value.current_mood
                  /\ th'[t].ret.value.last_updated = latest.metadata.timestamp]_vars

Unreadable(r) == r.document.kind \in UnreadableKinds

\* C6 as claimed: getState returns the default state (calm, no notes,
\* lastUpdated 0) and raises nothing when the character has no snapshot, when
\* its stored snapshot is unreadable and when the backend fails.
C6_DefaultAlways ==
    [][\A t \in Threads :
          (/\ Completes(t, "get_character_state")
           /\ \/ th'[t].ret.logged
              \/ \A r \in Matching(character_state, th'[t].npc_id) : Unreadable(r)) =>
              /\ ~th'[t].ret.raised
              /\ th'[t].ret.value = DefaultState]_vars

\* C6 as amended: getState raises nothing; it returns the default state when
\* the character has no snapshot, when the backend fails and when the stored
\* snapshot is JSON that is no object; when the stored snapshot is blank or
\* no JSON it returns the default mood and notes with lastUpdated set to the
\* timestamp of that record.
C6_DefaultWhenAbsent ==
    [][\A t \in Threads :
          Completes(t, "get_character_state") =>
              LET stored == Matching(character_state, th'[t].npc_id)
                  got == th'[t].ret
              IN  /\ ~got.raised
                  /\ (got.logged \/ stored = {}) => got.value = DefaultState
                  /\ (~got.logged /\ stored # {} /\ \A r \in stored : Unreadable(r)) =>
                        \E r \in stored :
                            got.value =
                                IF r.document.kind = "nondict"
                                THEN DefaultState
                                ELSE [DefaultState EXCEPT
                                         !.last_updated = r.metadata.timestamp]]_vars

\* C6 witness: one thread has read the unreadable snapshot of "A" (the default
\* with the record's timestamp), another the state of "B", which has none
C6_Witness ==
    \E t, u \in Threads :
        /\ th[t].op = "get_character_state" /\ th[t].pc = "done" /\ th[t].npc_id = "A"
        /\ th[t].ret.value = [DefaultState EXCEPT !.last_updated = StartTime - 1]
        /\ \E k \in {"blank", "invalid"} : UnreadableRecord("A", k) \in character_state
        /\ th[u].op = "get_character_state" /\ th[u].pc = "done" /\ th[u].npc_id = "B"
        /\ ~th[u].ret.logged
        /\ th[u].ret.value = DefaultState
        /\ Matching(character_state, "B") = {}

----------------------------------------------------------------------------
(* Claims about both collections *)

\* C7: a successful appendTurn or setState adds exactly one new record and
\* leaves every stored turn and snapshot of every character as it was; no
\* snapshot is ever removed or changed, and a turn is removed only by clear.
C7_AppendOnly ==
    [][/\ \A t \in Threads :
            (Completes(t, "write_dialog") /\ th'[t].ret.value = TRUE) =>
                /\ character_state' = character_state
                /\ \E rec \in dialogs' \ dialogs :
                      /\ dialogs' = dialogs \cup {rec}
                      /\ rec.metadata.npc_id = th'[t].npc_id
       /\ \A t \in Threads :
            (Completes(t, "set_character_state") /\ th'[t].ret.value = TRUE) =>
                /\ dialogs' = dialogs
                /\ \E rec \in character_state' \ character_state :
                      /\ character_state' = character_state \cup {rec}
                      /\ rec.metadata.npc_id = th'[t].npc_id
       /\ character_state \subseteq character_state'
       /\ (~(dialogs \subseteq dialogs')) =>
              \E t \in Threads : th[t].pc = "delete"
                                 /\ Completes(t, "clear_conversation_history")]_vars

\* C7 witness: a setState and an appendTurn have succeeded with a turn and a
\* snapshot of the same character already stored
C7_Witness ==
    \E t, u \in Threads, c \in NPCs :
        /\ th[t].op = "write_dialog" /\ th[t].pc = "done" /\ th[t].ret.value = TRUE
        /\ th[u].op = "set_character_state" /\ th[u].pc = "done" /\ th[u].ret.value = TRUE
        /\ th[t].npc_id = c /\ th[u].npc_id = c
        /\ Cardinality(Matching(dialogs, c)) + Cardinality(Matching(character_state, c)) >= 3

\* C8: of two appendTurn calls for one character within one clock second,
\* both return success and both turns are stored afterwards: an id built from
\* the character and the second makes no write fail or replace another.
C8_NoLostTurn ==
    [][\A t \in Threads :
          (/\ th[t].pc = "add"
           /\ Completes(t, "write_dialog")
           /\ HasId(dialogs, RecordId(th[t].npc_id, th[t].timestamp))) =>
              /\ th'[t].ret.value = TRUE
              /\ Cardinality(Matching(dialogs', th[t].npc_id)) =
                     Cardinality(Matching(dialogs, th[t].npc_id)) + 1]_vars

\* C9: a step of a call on one character (appendTurn, setState, clear, also
\* while calls on other characters are under way) leaves what history and
\* getState can return for every other character unchanged, and a history of
\* a character holds only turns stored for that character.
C9_ScopeIsolation ==
    [][/\ \A b \in NPCs :
            (\A t \in Threads : Acts(t) => th'[t].npc_id # b) =>
                /\ \/ dialogs' = dialogs
                   \/ \A l \in Limits :
                         HistoryOutcomes(dialogs', b, l) = HistoryOutcomes(dialogs, b, l)
                /\ \/ character_state' = character_state
                   \/ StateOutcomes(character_state', b) = StateOutcomes(character_state, b)
       /\ \A t \in Threads :
            Completes(t, "get_conversation_history") =>
                \A i \in 1..Len(th'[t].ret.value) :
                    \E r \in dialogs :
                        /\ r.metadata.npc_id = th'[t].npc_id
                        /\ HistoryEntry(r) = th'[t].ret.value[i]]_vars

\* C9 witness: a clear of one character has completed while turns of the
\* other character are stored, and the other thread has read that character
C9_Witness ==
    \E t, u \in Threads :
        /\ th[t].op = "clear_conversation_history" /\ th[t].pc = "done"
        /\ th[t].ret.value = TRUE
        /\ th[u].op \in {"get_conversation_history", "write_dialog"}
        /\ th[u].npc_id # th[t].npc_id
        /\ Matching(dialogs, th[u].npc_id) # {}
        /\ Matching(dialogs, th[t].npc_id) = {}

----------------------------------------------------------------------------
(* Claims about failures *)

\* C10: no Conversation Memory operation raises to its caller: when the
\* backend throws, appendTurn, clear and setState return failure, history the
\* empty sequence, getState the default and recall the empty result; recall
\* is also empty for an empty query.
C10_NothingRaised ==
    /\ \A t \in Threads :
          /\ ~th[t].ret.raised
          /\ (th[t].pc = "done" /\ th[t].ret.logged) =>
                th[t].ret.value =
                    CASE th[t].op = "get_conversation_history" -> <<>>
                      [] th[t].op = "get_character_state" -> DefaultState
                      [] OTHER -> FALSE
    /\ recalled.op = "recall" =>
          /\ ~recalled.ret.raised
          /\ recalled.query = <<>> => recalled.ret.value = <<>>

----------------------------------------------------------------------------
(* Claims about the chat workflow *)

InWorkflow(t) == wf[t].pc \notin {"idle", "done"}

\* the nodes thread t has run are the first nodes of the order, each once, and
\* the thread stands before the next one
VisitedInOrder(t) ==
    /\ Len(wf[t].visited) <= Len(Nodes)
    /\ wf[t].visited = SubSeq(Nodes, 1, Len(wf[t].visited))
    /\ (InWorkflow(t) /\ wf[t].pc # "add") => wf[t].pc = Nodes[Len(wf[t].visited) + 1]
    /\ wf[t].pc \in {"add", "done"} => wf[t].visited = Nodes
    /\ wf[t].pc = "done" => ~wf[t].ret.raised

\* C11: a chat call runs load_character_state, infer_emotion,
\* infer_speech_style, apply_interaction_policy, format_inputs, the generation
\* and the write of the state (LoadState .. Persist) once each in this order,
\* never an earlier one again, and every call that has started reaches the
\* return of its reply.
C11_OrderedToDone ==
    /\ [](\A t \in Threads : VisitedInOrder(t))
    /\ \A t \in Threads :
          InWorkflow(t) ~> (wf[t].pc = "done" /\ wf[t].visited = Nodes
                            /\ wf[t].ret.value \in AssistantMessages \cup {Fallback})

\* C11 witness: one call has returned after all its nodes while the call of
\* the other thread is between two nodes
C11_Witness ==
    \E t, u \in Threads :
        /\ wf[t].pc = "done" /\ wf[t].visited = Nodes /\ ~wf[t].ret.raised
        /\ wf[u].pc = "apply_interaction_policy"

\* C12: when the call of the Generation Collaborator throws, the chat call
\* raises nothing and its reply is the fixed fallback sentence; when the call
\* answers, the reply is that answer.
C12_FallbackReply ==
    \A t \in Threads :
        /\ wf[t].pc \in {"set_character_state", "add"} =>
              IF wf[t].generated
              THEN wf[t].response \in AssistantMessages
              ELSE wf[t].response = Fallback
        /\ wf[t].pc = "done" =>
              /\ ~wf[t].ret.raised
              /\ IF wf[t].generated
                 THEN wf[t].ret.value \in AssistantMessages
                 ELSE wf[t].ret.value = Fallback

\* C12 witness: a call whose generation failed has returned the fallback, and
\* another call whose generation answered has returned the answer
C12_Witness ==
    \E t, u \in Threads :
        /\ wf[t].pc = "done" /\ ~wf[t].generated /\ wf[t].ret = Returned(Fallback)
        /\ wf[u].pc = "done" /\ wf[u].generated /\ wf[u].ret.value \in AssistantMessages

\* thread t takes this step of its workflow
WorkflowActs(t) == wf'[t] # wf[t]

\* with this step the chat call of thread t returns
ChatReturns(t) == WorkflowActs(t) /\ wf'[t].pc = "done"

\* C13: a chat call that returns has appended exactly one turn for its
\* character, with the request message as user message and the returned reply
\* (the fallback included) as assistant message; after one chat call on an
\* empty history there is exactly one turn of the character.
C13_TurnAppended ==
    [][\A t \in Threads :
          ChatReturns(t) =>
              /\ \E rec \in dialogs' :
                    /\ dialogs' = dialogs \cup {rec}
                    /\ rec \notin dialogs
                    /\ rec.metadata.npc_id = wf[t].npc_info.id
                    /\ HistoryEntry(rec).user_message = wf[t].user_message
                    /\ HistoryEntry(rec).assistant_message = wf'[t].ret.value
              /\ dialogs = {} =>
                    Cardinality(Matching(dialogs', wf[t].npc_info.id)) = 1]_vars

\* C14: the state that the write of a chat call stores has the fields of the
\* state the call loaded, each with the loaded value, except current_mood,
\* which is the emotion label of the turn.
C14_OnlyMoodChanges ==
    [][\A t \in Threads :
          (WorkflowActs(t) /\ wf[t].pc = "add" /\ character_state' # character_state) =>
              \E rec \in character_state' \ character_state :
                  LET written == rec.document.value
                      loaded == wf[t].character_state
                  IN  /\ character_state' = character_state \cup {rec}
                      /\ rec.document.kind = "object"
                      /\ rec.metadata.npc_id = wf[t].npc_info.id
                      /\ DOMAIN written = DOMAIN loaded \cup {"current_mood"}
                      /\ written.current_mood = wf[t].emotion.label
                      /\ \A k \in DOMAIN loaded \ {"current_mood"} :
                            written[k] = loaded[k]]_vars

\* C14 witness: a chat call has loaded the snapshot of "A" that an earlier run
\* wrote (downcast, a note) and stored it with the mood displeased
C14_Witness ==
    \E rec \in character_state, t \in Threads :
        /\ wf[t].pc = "done" /\ wf[t].persisted
        /\ rec.metadata.npc_id = "A"
        /\ rec.metadata.timestamp >= StartTime
        /\ rec.document.value.current_mood = "buyue"
        /\ rec.document.value.notes = EarlierState.notes
        /\ rec.document.value.last_updated = StartTime - 1

\* C15: when the write of the state fails after the reply has been produced,
\* the chat call raises nothing and returns the reply it returns when the
\* write succeeds.
C15_PersistFailureHidden ==
    [][\A t \in Threads :
          (WorkflowActs(t) /\ wf[t].pc = "add") =>
              /\ wf'[t].pc = "done"
              /\ wf'[t].ret = Returned(wf[t].response)
              /\ wf'[t].persisted = (character_state' # character_state)]_vars

\* C15 witness: a call whose write failed has returned its reply, another
\* whose write succeeded has returned too
C15_Witness ==
    \E t, u \in Threads :
        /\ wf[t].pc = "done" /\ ~wf[t].persisted /\ wf[t].generated
        /\ wf[t].ret.value \in AssistantMessages
        /\ wf[u].pc = "done" /\ wf[u].persisted

----------------------------------------------------------------------------
(* Claims about the emotion and the interaction mode *)

HasRun(t, node) == \E i \in 1..Len(wf[t].visited) : wf[t].visited[i] = node

MentionsAny(text, keywords) == \E k \in keywords : IsSubstring(k, text)

\* C16: a message with a displeased keyword is labelled displeased, one with
\* only a downcast keyword downcast, whatever the previous mood; a message
\* with no keyword keeps a previous mood that is displeased or downcast and is
\* labelled calm after any other previous mood.
C16_EmotionInertia ==
    \A t \in Threads :
        (InWorkflow(t) /\ HasRun(t, "infer_emotion")) =>
            LET text == wf[t].user_message
                prev == wf[t].character_state.current_mood
                label == wf[t].emotion.label
            IN  /\ MentionsAny(text, DispleasedKeywords) => label = "buyue"
                /\ (/\ ~MentionsAny(text, DispleasedKeywords)
                    /\ MentionsAny(text, DowncastKeywords)) => label = "diluo"
                /\ ~MentionsAny(text, DispleasedKeywords \cup DowncastKeywords) =>
                      label = IF prev \in {"buyue", "diluo"} THEN prev ELSE "pingjing"

\* C16 witness: after the mood downcast a message without a keyword has been
\* labelled downcast, not calm
C16_Witness ==
    \E t \in Threads :
        /\ HasRun(t, "infer_emotion")
        /\ wf[t].character_state.current_mood = "diluo"
        /\ wf[t].user_message = <<"yan", "tao">>
        /\ wf[t].emotion.label = "diluo"

\* C17: in a turn whose emotion label is displeased the mode is COOL_DOWN,
\* also when the message holds a configured sensitive topic; it is never
\* SOFT_DEFLECT then.
C17_CoolDownFirst ==
    \A t \in Threads :
        (/\ InWorkflow(t)
         /\ HasRun(t, "apply_interaction_policy")
         /\ wf[t].emotion.label = "buyue") =>
            /\ wf[t].interaction_mode.mode = "COOL_DOWN"
            /\ wf[t].interaction_mode.mode # "SOFT_DEFLECT"

\* C17 witness: a displeased message with the topic that the npc_info
\* configures at its top level has been resolved to COOL_DOWN
C17_Witness ==
    \E t \in Threads :
        /\ HasRun(t, "apply_interaction_policy")
        /\ wf[t].emotion.label = "buyue"
        /\ "interaction_policy" \in DOMAIN wf[t].npc_info
        /\ \E i \in 1..Len(wf[t].npc_info.interaction_policy.sensitive_topics) :
              IsSubstring(wf[t].npc_info.interaction_policy.sensitive_topics[i],
                          wf[t].user_message)
        /\ wf[t].interaction_mode.mode = "COOL_DOWN"

\* the sensitive topics that the configuration file of a character configures
ConfiguredTopics(npc_id) ==
    LET policy == Get(NpcConfig[npc_id], "interaction_policy", <<>>)
        topics == Get(policy, "sensitive_topics", <<>>)
    IN  {topics[i] : i \in 1..Len(topics)}

\* C18: for a persona that get_npc has loaded and whose configuration names
\* sensitive topics, a turn that is not displeased is resolved to SOFT_DEFLECT
\* when the message holds one of the topics and to NORMAL when it holds none.
C18_StoreTopicsDeflect ==
    \A t \in Threads :
        (/\ InWorkflow(t)
         /\ HasRun(t, "apply_interaction_policy")
         /\ wf[t].npc_info = GetNpc(wf[t].npc_info.id)
         /\ ConfiguredTopics(wf[t].npc_info.id) # {}
         /\ wf[t].emotion.label # "buyue") =>
            wf[t].interaction_mode.mode =
                IF MentionsAny(wf[t].user_message, ConfiguredTopics(wf[t].npc_info.id))
                THEN "SOFT_DEFLECT"
                ELSE "NORMAL"

----------------------------------------------------------------------------
(* Claims about the Context Assembler *)

\* the entries that step 1 keeps hold no message (none is kept when the
\* history is empty or maxTurns is 0)
NoMessageKept(h, n) ==
    \A i \in 1..Len(h) :
        i > Len(h) - n => h[i].user_message = <<>> /\ h[i].assistant_message = <<>>

AgreeOnLast(h1, h2, n) ==
    /\ Min(n, Len(h1)) = Min(n, Len(h2))
    /\ \A i \in 1..Min(n, Len(h1)) : h1[Len(h1) - i + 1] = h2[Len(h2) - i + 1]

\* C20: the assembled text depends on the last maxTurns entries only: every
\* raw history with the same last maxTurns entries gives the same text.
C20_LastTurnsOnly ==
    assembled.pc = "done" =>
        \A h \in RawHistories :
            AgreeOnLast(h, assembled.rawHistory, assembled.maxTurns) =>
                FormatHistory(TrimHistory(h, assembled.maxTurns, assembled.maxChars)) =
                    assembled.conversation_history

\* C20 witness: a history longer than maxTurns has been assembled to a text,
\* and its earlier entries hold messages
C20_Witness ==
    /\ assembled.pc = "done"
    /\ assembled.maxTurns > 0
    /\ Len(assembled.rawHistory) > assembled.maxTurns
    /\ assembled.rawHistory[1].user_message # <<>>
    /\ assembled.conversation_history # EmptySection

----------------------------------------------------------------------------
(* Claims about format_inputs *)

FmtSections == {"knowledge", "character_state", "emotion", "speech_style", "interaction_mode"}

IsEmptyLike(obj) == \/ obj.kind = "none"
                    \/ obj.kind = "dict" /\ Len(obj.v) = 0
                    \/ obj.kind = "list" /\ Len(obj.v) = 0
                    \/ obj.kind = "str" /\ Len(obj.v) = 0

\* C21: no section of format_inputs is rendered empty: None, an empty
\* mapping, an empty sequence and an empty string give the marker, a mapping
\* with entries gives the lines key, full-width colon, value, one for each
\* entry in order, and every other value gives its string conversion; the
\* history text gives the marker when it is missing or empty and itself else.
C21_SectionsRendered ==
    assembled.pc = "formatted" =>
        /\ \A name \in FmtSections :
              LET obj == assembled.sections[name]
                  out == assembled.formatted_inputs[name]
              IN  /\ out # <<>>
                  /\ IsEmptyLike(obj) => out = EmptySection
                  /\ (~IsEmptyLike(obj) /\ obj.kind = "dict") =>
                        out = Join([i \in 1..Len(obj.v) |->
                                      obj.v[i][1] \o <<FWCOLON>> \o Str(obj.v[i][2])])
                  /\ (~IsEmptyLike(obj) /\ obj.kind # "dict") => out = Str(obj)
        /\ LET h == assembled.sections.conversation_history
               out == assembled.formatted_inputs.conversation_history
           IN  /\ out # <<>>
               /\ out = IF IsEmptyLike(h) THEN EmptySection ELSE h.v

\* C21 witness: a mapping of three entries has been rendered as its lines
\* while an empty sequence and a missing history text gave the marker
C21_Witness ==
    /\ assembled.pc = "formatted"
    /\ assembled.sections.knowledge.kind = "dict"
    /\ Len(assembled.sections.knowledge.v) = 3
    /\ Len(assembled.formatted_inputs.knowledge) > 3
    /\ assembled.sections.character_state.kind = "list"
    /\ Len(assembled.sections.character_state.v) = 0
    /\ assembled.formatted_inputs.character_state = EmptySection
    /\ assembled.sections.conversation_history.kind = "none"
    /\ assembled.formatted_inputs.conversation_history = EmptySection

----------------------------------------------------------------------------
(* Claims about the Persona Store and its routes *)

WellFormedIds ==
    {n \in {"A", "B", "C"} :
        /\ npc_dir.exists
        /\ <<n, "json">> \in DOMAIN npc_dir.files
        /\ npc_dir.files[<<n, "json">>].kind = "json"}

\* C22 as claimed: the listing of a directory, whatever files are malformed,
\* is answered with the summaries of exactly the well-formed persona files
C22_MalformedSkipped ==
    served.route = "npc_list" =>
        /\ served.status = 200
        /\ Len(served.body) = Cardinality(WellFormedIds)
        /\ {served.body[i].id : i \in 1..Len(served.body)} = WellFormedIds

NoFileFor(npc_id) ==
    ~npc_dir.exists \/ <<npc_id, "json">> \notin DOMAIN npc_dir.files

ClientErrors == 400..499

\* C23 as claimed: for an id without a definition file get_npc raises the
\* not-found error, the detail route and the two chat routes answer with a
\* status of the 4xx class, and no memory record is written
C23_MissingIdIsNotFound ==
    /\ \A n \in {"A", "B", "C"} :
          NoFileFor(n) => GetNpcIn(npc_dir, n) = RaisedError("FileNotFoundError")
    /\ (served.route = "npc_info" /\ NoFileFor(served.args)) =>
          served.status \in ClientErrors
    /\ (/\ served.route \in {"chat", "api_chat"}
        /\ Get(served.args, "npc_id", "") # ""
        /\ Get(served.args, "message", <<>>) # <<>>
        /\ NoFileFor(served.args.npc_id)) =>
          served.status \in ClientErrors
    /\ dialogs = {} /\ character_state = {} /\ logs = NoLogs

\* the fixed order of the sections
Headers ==
    <<Header.background, Header.instruction, Header.identity, Header.speech_style,
      Header.interaction_policy, Header.constraint>>

PromptConfig == npc_dir.files[<<"A", "json">>].config
Positions(prompt, h) == {i \in 1..Len(prompt) : prompt[i] = h}
HeaderPositions(prompt) ==
    {i \in 1..Len(prompt) : \E j \in DOMAIN Headers : prompt[i] = Headers[j]}
HasHeader(prompt, h) == Positions(prompt, h) # {}

\* C24: the prompt of get_npc has each header at most once and in the fixed
\* order, ends with the system constraint, has after each header a line
\* break and then content, begins each later section after an empty line, and
\* has the header of a section exactly when the section has content: a
\* background that is not blank, an instruction, a description or a non-empty
\* persona list, a speech style with a key, an interaction policy with a key.
C24_SectionsInOrder ==
    (served.route = "npc_info" /\ served.status = 200) =>
        LET prompt == served.body.prompt
            persona == Get(PromptConfig, "persona", <<>>)
        IN  /\ \A j \in DOMAIN Headers : Cardinality(Positions(prompt, Headers[j])) <= 1
            /\ \A j \in DOMAIN Headers, k \in DOMAIN Headers :
                  j < k => \A p \in Positions(prompt, Headers[j]),
                              q \in Positions(prompt, Headers[k]) : p < q
            /\ Len(prompt) >= Len(SystemConstraint)
            /\ SubSeq(prompt, Len(prompt) - Len(SystemConstraint) + 1, Len(prompt)) =
                  SystemConstraint
            /\ \A i \in HeaderPositions(prompt) :
                  /\ i + 2 <= Len(prompt)
                  /\ prompt[i + 1] = NL
                  /\ prompt[i + 2] # NL
                  /\ i > 1 => (i > 2 /\ prompt[i - 1] = NL /\ prompt[i - 2] = NL)
            /\ prompt[1] \in {Headers[j] : j \in DOMAIN Headers}
            /\ HasHeader(prompt, Header.background) <=>
                  ("A" \in DOMAIN npc_dir.backgrounds /\ Strip(npc_dir.backgrounds["A"]) # <<>>)
            /\ HasHeader(prompt, Header.instruction) <=>
                  Get(PromptConfig, "instruction", <<>>) # <<>>
            /\ HasHeader(prompt, Header.identity) <=>
                  \/ Get(PromptConfig, "description", <<>>) # <<>>
                  \/ \E k \in {"core_traits", "values", "flaws"} : Get(persona, k, <<>>) # <<>>
            /\ HasHeader(prompt, Header.speech_style) <=>
                  DOMAIN Get(PromptConfig, "speech_style", <<>>) # {}
            /\ HasHeader(prompt, Header.interaction_policy) <=>
                  DOMAIN Get(PromptConfig, "interaction_policy", <<>>) # {}

\* C24 witness: a configuration with an empty instruction and an empty
\* persona list, a speech style and an interaction policy has given a prompt
\* of the background, the two sections that have content and the constraint
C24_Witness ==
    /\ served.route = "npc_info"
    /\ served.status = 200
    /\ "instruction" \in DOMAIN PromptConfig
    /\ "persona" \in DOMAIN PromptConfig
    /\ "core_traits" \in DOMAIN PromptConfig.persona
    /\ ~HasHeader(served.body.prompt, Header.instruction)
    /\ ~HasHeader(served.body.prompt, Header.identity)
    /\ HasHeader(served.body.prompt, Header.background)
    /\ HasHeader(served.body.prompt, Header.speech_style)
    /\ HasHeader(served.body.prompt, Header.interaction_policy)
    /\ HasHeader(served.body.prompt, Header.constraint)

----------------------------------------------------------------------------
(* Claims about the mood over the chat turns *)

StoredMoods(npc_id) ==
    {ReadState(rec).current_mood : rec \in {r \in character_state : r.metadata.npc_id = npc_id}}

\* C25 as claimed: every snapshot a chat turn writes has a mood of the closed
\* set, and it is not calm when a snapshot stored for the character already
\* has the mood displeased or downcast
C25_MoodNeverCalmsDown ==
    [][\A rec \in character_state' \ character_state :
          /\ rec.document.value.current_mood \in {"pingjing", "buyue", "diluo"}
          /\ (StoredMoods(rec.metadata.npc_id) \cap {"buyue", "diluo"} # {}) =>
                rec.document.value.current_mood # "pingjing"]_vars

----------------------------------------------------------------------------
(* Claims about the ConversationLog *)

\* C26 as claimed: recent returns at most limit records, the last ones of
\* the session in the order of their insertion, and none for a session that
\* has no list
C26_AtMostLimit ==
    [][\A s \in NPCs, l \in Limits :
          LogRecent(s, l) =>
              LET all == IF s \in DOMAIN logs THEN logs[s] ELSE <<>>
                  result == served'.body
              IN  /\ Len(result) <= l
                  /\ result = SubSeq(all, Len(all) - Min(l, Len(all)) + 1, Len(all))
                  /\ s \notin DOMAIN logs => result = <<>>]_vars

====
